---- MODULE Spec2Model ----
(***************************************************************************)
(* A model of the personal-assistant repository: the intent classifier and *)
(* tool dispatcher of agent_core.py, the conversation memory of memory.py, *)
(* and the calendar and email tools of tools/.                             *)
(*                                                                         *)
(* Text is modelled character by character: a text is a sequence of       *)
(* characters, a character is a one-element string.  A CJK character is    *)
(* written as its pinyin syllable (tone digit added where two characters   *)
(* of the source share a syllable), so "tian","qi" is the two-character    *)
(* word of weather_keywords[0]; a Latin letter, a digit, a blank or a      *)
(* punctuation mark is written as itself ("fwcomma", "fwqmark", "fwstop"   *)
(* and "fwcolon" are the full-width comma, question mark, full stop and    *)
(* colon).                                                                 *)
(***************************************************************************)
EXTENDS Integers, Sequences, FiniteSets, TLC

VARIABLES
    \* ---- PersonalAssistant (agent_core.py)
    weather_api_key,    \* whether a weather API key was supplied at construction
    weather_lookups,    \* number of get_weather calls made so far
    last,               \* what the last process_request did and returned
    \* ---- CalendarTool (tools/calendar.py)
    events,             \* self.events
    event_id_counter,   \* self.event_id_counter
    assigned_ids,       \* history: ids given to events, in order of assignment
    cal_reply,          \* the last reply of manage_schedule and its request
    \* ---- EmailTool (tools/email.py)
    mock_emails,        \* self.mock_emails
    draft_emails,       \* self.draft_emails
    mail_reply,         \* the last reply of process_email, its request, the mailbox before
    \* ---- ConversationMemory (memory.py)
    max_memories,       \* self.max_memories
    memories,           \* self.memories
    user_preferences,   \* self.user_preferences
    important_facts,    \* self.important_facts
    clock,              \* datetime.now(), in ticks
    mem_reply,          \* the last memory operation, what it returned, the store before a clear
    exported,           \* the text export_memories returned last, and the store then
    mem_ops,            \* history: number of add_memory calls so far
    \* ---- the input of a pure-function specification
    probe,
    \* ---- the Streamlit session (app.py)
    session_state       \* st.session_state: assistant, messages, and the last chat turn

vars == << weather_api_key, weather_lookups, last,
           events, event_id_counter, assigned_ids, cal_reply,
           mock_emails, draft_emails, mail_reply,
           max_memories, memories, user_preferences, important_facts, clock,
           mem_reply, exported, mem_ops,
           probe, session_state >>

assistant_vars == << weather_api_key, weather_lookups, last >>
calendar_vars  == << events, event_id_counter, assigned_ids, cal_reply >>
email_vars     == << mock_emails, draft_emails, mail_reply >>
memory_vars    == << max_memories, memories, user_preferences, important_facts, clock,
                      mem_reply, exported, mem_ops >>

-----------------------------------------------------------------------------
(* Text primitives: Python's str operations on sequences of characters.    *)

Min(a, b) == IF a < b THEN a ELSE b
Max(a, b) == IF a > b THEN a ELSE b

\* `kw in text`
Contains(text, kw) ==
    \E i \in 1..(Len(text) - Len(kw) + 1) : SubSeq(text, i, i + Len(kw) - 1) = kw

\* any(keyword in text for keyword in keywords)
AnyIn(keywords, text) == \E kw \in keywords : Contains(text, kw)

UpperLetters == {"W", "M", "E", "A", "T", "S"}

\* str.lower() on one character: the upper-case Latin letters of the alphabet
\* map to their lower-case forms, everything else is unchanged.
LowerChar(c) ==
    CASE c = "W" -> "w"
      [] c = "M" -> "m"
      [] c = "E" -> "e"
      [] c = "A" -> "a"
      [] c = "T" -> "t"
      [] c = "S" -> "s"
      [] OTHER   -> c

\* str.lower()
Lower(text) == [i \in 1..Len(text) |-> LowerChar(text[i])]

Digits == {"0", "1", "2", "3", "4", "5", "6", "7", "8", "9"}
Spaces == {" "}

\* str.strip(): leading and trailing whitespace removed
RECURSIVE LStrip(_)
LStrip(text) ==
    IF text # <<>> /\ Head(text) \in Spaces THEN LStrip(Tail(text)) ELSE text

RECURSIVE RStrip(_)
RStrip(text) ==
    IF text # <<>> /\ text[Len(text)] \in Spaces
    THEN RStrip(SubSeq(text, 1, Len(text) - 1))
    ELSE text

Strip(text) == RStrip(LStrip(text))

\* str.split(): the maximal runs of non-blank characters, in order.
RECURSIVE SplitWords(_)
SplitWords(text) ==
    LET body == LStrip(text) IN
    IF body = <<>> THEN <<>>
    ELSE LET blanks == {i \in 1..Len(body) : body[i] \in Spaces}
             stop   == IF blanks = {} THEN Len(body) + 1
                       ELSE CHOOSE i \in blanks : \A j \in blanks : i <= j
         IN  <<SubSeq(body, 1, stop - 1)>> \o SplitWords(SubSeq(body, stop, Len(body)))

\* The concatenation of a sequence of words.
RECURSIVE Flatten(_)
Flatten(words) == IF words = <<>> THEN <<>> ELSE Head(words) \o Flatten(Tail(words))

\* All texts made of at most n words of a vocabulary.
RECURSIVE TextsOf(_, _)
TextsOf(vocab, n) ==
    IF n = 0 THEN {<<>>}
    ELSE LET shorter == TextsOf(vocab, n - 1)
         IN  shorter \cup {t \o w : t \in shorter, w \in vocab}

-----------------------------------------------------------------------------
(* PersonalAssistant._detect_intent and its extractors.                    *)

weather_keywords ==
    { <<"tian", "qi">>, <<"qi", "wen">>, <<"xia", "yu3">>, <<"qing", "tian">>,
      <<"yin", "tian">>, <<"feng", "su">>,
      <<"w", "e", "a", "t", "h", "e", "r">>,
      <<"t", "e", "m", "p", "e", "r", "a", "t", "u", "r", "e">> }

calendar_keywords ==
    { <<"hui4", "yi">>, <<"an", "pai">>, <<"ri", "cheng">>, <<"yue", "hui4">>,
      <<"ti", "xing">>,
      <<"m", "e", "e", "t", "i", "n", "g">>,
      <<"s", "c", "h", "e", "d", "u", "l", "e">>,
      <<"a", "p", "p", "o", "i", "n", "t", "m", "e", "n", "t">> }

email_keywords ==
    { <<"you", "jian">>, <<"xin4", "jian">>, <<"ji", "xin4">>, <<"hui2", "xin4">>,
      <<"e", "m", "a", "i", "l">>, <<"m", "a", "i", "l">>, <<"s", "e", "n", "d">> }

\* The gazetteer of _extract_cities, in list order.
cities ==
    << <<"tai", "bei">>, <<"tai", "zhong">>, <<"tai", "nan">>, <<"gao", "xiong">>,
       <<"tao", "yuan">>, <<"xin1", "zhu">>, <<"tai", "dong">>, <<"hua", "lian">>,
       <<"tai", "wan">>, <<"xiang", "gang">>, <<"ao", "men">>, <<"bei", "jing">>,
       <<"shang", "hai">>, <<"guang", "zhou1">>, <<"shen", "zhen">>,
       <<"t", "a", "i", "p", "e", "i">>, <<"t", "a", "i", "c", "h", "u", "n", "g">>,
       <<"k", "a", "o", "h", "s", "i", "u", "n", "g">>,
       <<"h", "o", "n", "g", " ", "k", "o", "n", "g">>, <<"m", "a", "c", "a", "u">>,
       <<"b", "e", "i", "j", "i", "n", "g">>, <<"s", "h", "a", "n", "g", "h", "a", "i">>,
       <<"g", "u", "a", "n", "g", "z", "h", "o", "u">>,
       <<"s", "h", "e", "n", "z", "h", "e", "n">>,
       <<"t", "o", "k", "y", "o">>, <<"o", "s", "a", "k", "a">>, <<"s", "e", "o", "u", "l">>,
       <<"s", "i", "n", "g", "a", "p", "o", "r", "e">>, <<"b", "a", "n", "g", "k", "o", "k">>,
       <<"n", "e", "w", " ", "y", "o", "r", "k">>, <<"l", "o", "n", "d", "o", "n">>,
       <<"p", "a", "r", "i", "s">>, <<"s", "y", "d", "n", "e", "y">>,
       <<"m", "e", "l", "b", "o", "u", "r", "n", "e">> >>

\* _extract_cities: the gazetteer entries found in the lower-cased text, in
\* gazetteer order.
_extract_cities(text) ==
    SelectSeq(cities, LAMBDA city : Contains(Lower(text), Lower(city)))

\* A value of the 'time' entry: a str (one part), the tuple re.findall
\* returns for a pattern with two groups (two parts), or no entry.
TimeValue(tag, parts) == [tag |-> tag, parts |-> parts]

NoTime == TimeValue("none", <<>>)

\* [dian shi2], the hour marks; shang wu, xia wu, zao shang, wan shang, zhong
\* wu, the parts of the day.
HourMarks == {"dian", "shi2"}

PeriodWords == { <<"shang", "wu">>, <<"xia", "wu">>, <<"zao", "shang">>,
                 <<"wan", "shang">>, <<"zhong", "wu">> }

IsDigitAt(text, i) == i >= 1 /\ i <= Len(text) /\ text[i] \in Digits

IsMarkAt(text, i) == i >= 1 /\ i <= Len(text) /\ text[i] \in HourMarks

\* (\d{1,2})[dian shi2] matched at position i: the number of digits, 0 when
\* there is no match at i.
HourDigitsAt(text, i) ==
    IF IsDigitAt(text, i) /\ IsDigitAt(text, i + 1) /\ IsMarkAt(text, i + 2) THEN 2
    ELSE IF IsDigitAt(text, i) /\ IsMarkAt(text, i + 1) THEN 1
    ELSE 0

\* (\d{1,2}):(\d{2}) matched at position i: the number of hour digits, 0
\* when there is no match at i.
ClockDigitsAt(text, i) ==
    IF /\ IsDigitAt(text, i) /\ IsDigitAt(text, i + 1)
       /\ i + 2 <= Len(text) /\ text[i + 2] = ":"
       /\ IsDigitAt(text, i + 3) /\ IsDigitAt(text, i + 4) THEN 2
    ELSE IF /\ IsDigitAt(text, i) /\ i + 1 <= Len(text) /\ text[i + 1] = ":"
            /\ IsDigitAt(text, i + 2) /\ IsDigitAt(text, i + 3) THEN 1
    ELSE 0

IsPeriodAt(text, i) ==
    i >= 1 /\ i + 1 <= Len(text) /\ SubSeq(text, i, i + 1) \in PeriodWords

\* The leftmost position a pattern matches at, 0 when it matches nowhere.
Leftmost(positions) ==
    IF positions = {} THEN 0 ELSE CHOOSE i \in positions : \A j \in positions : i <= j

\* time_info['time'] of _extract_time_info: matches[0] of re.findall for the
\* first pattern that matches, which is the group and not the whole match:
\* the digits before an hour mark, the pair (hour, minute), a part of the day.
ExtractTimeEntity(text) ==
    LET h == Leftmost({i \in 1..Len(text) : HourDigitsAt(text, i) > 0})
        c == Leftmost({i \in 1..Len(text) : ClockDigitsAt(text, i) > 0})
        p == Leftmost({i \in 1..Len(text) : IsPeriodAt(text, i)})
    IN  IF h > 0 THEN TimeValue("str", <<SubSeq(text, h, h + HourDigitsAt(text, h) - 1)>>)
        ELSE IF c > 0
        THEN TimeValue("tuple",
                 <<SubSeq(text, c, c + ClockDigitsAt(text, c) - 1),
                   SubSeq(text, c + ClockDigitsAt(text, c) + 1,
                          c + ClockDigitsAt(text, c) + 2)>>)
        ELSE IF p > 0 THEN TimeValue("str", <<SubSeq(text, p, p + 1)>>)
        ELSE NoTime

\* The date token of _extract_time_info: today before tomorrow before the
\* day after tomorrow; "none" when no token is present.
ExtractDateToken(text) ==
    IF Contains(text, <<"jin", "tian">>) \/ Contains(text, <<"jin", "ri">>)
        THEN "today"
    ELSE IF Contains(text, <<"ming", "tian">>) \/ Contains(text, <<"ming", "ri">>)
        THEN "tomorrow"
    ELSE IF Contains(text, <<"hou", "tian">>)
        THEN "day_after_tomorrow"
    ELSE "none"

NoCity == <<>>

\* _detect_intent with the calendar keywords tried before the weather ones.
DetectIntent_CalendarFirst(user_input) ==
    LET user_input_lower == Lower(user_input) IN
    IF AnyIn(calendar_keywords, user_input_lower) THEN
        [type |-> "calendar", confidence |-> 7,
         city |-> NoCity, date |-> ExtractDateToken(user_input),
         time |-> ExtractTimeEntity(user_input)]
    ELSE IF AnyIn(weather_keywords, user_input_lower) THEN
        LET found == _extract_cities(user_input) IN
        [type |-> "weather", confidence |-> 8,
         city |-> IF found # <<>> THEN found[1] ELSE NoCity, date |-> "none",
         time |-> NoTime]
    ELSE IF AnyIn(email_keywords, user_input_lower) THEN
        [type |-> "email", confidence |-> 7, city |-> NoCity, date |-> "none",
         time |-> NoTime]
    ELSE
        [type |-> "general", confidence |-> 0, city |-> NoCity, date |-> "none",
         time |-> NoTime]

\* _detect_intent: confidence in tenths.
_detect_intent(user_input) ==
    LET user_input_lower == Lower(user_input) IN
    IF AnyIn(weather_keywords, user_input_lower) THEN
        LET found == _extract_cities(user_input) IN
        [type |-> "weather", confidence |-> 8,
         city |-> IF found # <<>> THEN found[1] ELSE NoCity, date |-> "none",
         time |-> NoTime]
    ELSE IF AnyIn(calendar_keywords, user_input_lower) THEN
        [type |-> "calendar", confidence |-> 7,
         city |-> NoCity, date |-> ExtractDateToken(user_input),
         time |-> ExtractTimeEntity(user_input)]
    ELSE IF AnyIn(email_keywords, user_input_lower) THEN
        [type |-> "email", confidence |-> 7, city |-> NoCity, date |-> "none",
         time |-> NoTime]
    ELSE
        [type |-> "general", confidence |-> 0, city |-> NoCity, date |-> "none",
         time |-> NoTime]

-----------------------------------------------------------------------------
(* Regular-expression helpers: re.search / re.findall / re.sub on the      *)
(* patterns the source uses.  The alphabet has no line break, so "." is    *)
(* any character and "$" is the end of the text.                           *)

\* The first index at which kw occurs in text, 0 when it does not occur.
FirstIndex(text, kw) ==
    LET hits == {i \in 1..(Len(text) - Len(kw) + 1) :
                    SubSeq(text, i, i + Len(kw) - 1) = kw}
    IN  IF hits = {} THEN 0 ELSE CHOOSE i \in hits : \A j \in hits : i <= j

\* The length of the run of digits text starts with: \d+ (greedy).
RECURSIVE DigitRun(_)
DigitRun(text) ==
    IF text # <<>> /\ Head(text) \in Digits THEN 1 + DigitRun(Tail(text)) ELSE 0

DigitValue(c) ==
    CASE c = "0" -> 0 [] c = "1" -> 1 [] c = "2" -> 2 [] c = "3" -> 3
      [] c = "4" -> 4 [] c = "5" -> 5 [] c = "6" -> 6 [] c = "7" -> 7
      [] c = "8" -> 8 [] c = "9" -> 9

\* int() of a string of digits
RECURSIVE IntOf(_)
IntOf(digits) ==
    IF digits = <<>> THEN 0
    ELSE 10 * IntOf(SubSeq(digits, 1, Len(digits) - 1)) + DigitValue(digits[Len(digits)])

NoMatch == [matched |-> FALSE, group |-> <<>>]

\* re.search(kw + '(.+?)(?:' + '|'.join(delims) + '|$)', text): the match
\* starts at the first occurrence of kw that is followed by a character; the
\* lazy group is the shortest non-empty run that a delimiter or the end follows.
SearchLazyAfter(text, kw, delims) ==
    LET p    == FirstIndex(text, kw)
        rest == SubSeq(text, p + Len(kw), Len(text))
    IN  IF p = 0 \/ rest = <<>> THEN NoMatch
        ELSE LET ends == {k \in 1..Len(rest) : k = Len(rest) \/ rest[k + 1] \in delims}
                 k    == CHOOSE k \in ends : \A j \in ends : k <= j
             IN  [matched |-> TRUE, group |-> SubSeq(rest, 1, k)]

\* re.search('(.+?)' + kw, text): the match starts at the first character; the
\* lazy group runs up to the first occurrence of kw that leaves it non-empty.
SearchLazyBefore(text, kw) ==
    LET hits == {i \in 2..(Len(text) - Len(kw) + 1) :
                    SubSeq(text, i, i + Len(kw) - 1) = kw}
    IN  IF hits = {} THEN NoMatch
        ELSE LET p == CHOOSE i \in hits : \A j \in hits : i <= j
             IN  [matched |-> TRUE, group |-> SubSeq(text, 1, p - 1)]

\* re.sub('(' + '|'.join(words) + ')', '', text) for literal words: leftmost,
\* non-overlapping occurrences removed in one pass.
RECURSIVE RemoveWords(_, _)
RemoveWords(text, words) ==
    IF text = <<>> THEN <<>>
    ELSE LET here == {w \in words : Len(w) <= Len(text) /\ SubSeq(text, 1, Len(w)) = w}
         IN  IF here # {}
             THEN LET w == CHOOSE w \in here : TRUE
                  IN  RemoveWords(SubSeq(text, Len(w) + 1, Len(text)), words)
             ELSE <<Head(text)>> \o RemoveWords(Tail(text), words)

-----------------------------------------------------------------------------
(* CalendarTool (tools/calendar.py).                                       *)

add_keywords ==
    { <<"an", "pai">>, <<"yu4", "yue">>, <<"she", "ding">>, <<"xin1", "zeng">>,
      <<"tian1", "jia">>, <<"yue">>, <<"hui4", "yi">>,
      <<"s", "c", "h", "e", "d", "u", "l", "e">>, <<"a", "d", "d">>,
      <<"b", "o", "o", "k">> }

view_keywords ==
    { <<"cha", "kan">>, <<"xian", "shi4">>, <<"kan">>, <<"jin", "tian">>,
      <<"ming", "tian">>, <<"ben", "zhou">>,
      <<"s", "h", "o", "w">>, <<"v", "i", "e", "w">>, <<"l", "i", "s", "t">> }

delete_keywords ==
    { <<"shan", "chu">>, <<"qu", "xiao1">>, <<"yi2", "chu">>,
      <<"d", "e", "l", "e", "t", "e">>, <<"c", "a", "n", "c", "e", "l">>,
      <<"r", "e", "m", "o", "v", "e">> }

update_keywords ==
    { <<"xiu", "gai">>, <<"geng", "gai">>, <<"tiao", "zheng">>,
      <<"u", "p", "d", "a", "t", "e">>, <<"m", "o", "d", "i", "f", "y">>,
      <<"c", "h", "a", "n", "g", "e">> }

_detect_schedule_intent(user_input) ==
    LET user_input_lower == Lower(user_input) IN
    IF AnyIn(add_keywords, user_input_lower) THEN "add"
    ELSE IF AnyIn(view_keywords, user_input_lower) THEN "view"
    ELSE IF AnyIn(delete_keywords, user_input_lower) THEN "delete"
    ELSE IF AnyIn(update_keywords, user_input_lower) THEN "update"
    ELSE "help"

TitleDelims == {"zai", "de", "fwcomma"}

\* The title_patterns cascade of _extract_event_info: the first pattern that
\* matches gives the title (stripped), also when that leaves it empty.
TitleByPattern(user_input) ==
    LET m1 == SearchLazyAfter(user_input, <<"an", "pai">>, TitleDelims)
        m2 == SearchLazyAfter(user_input, <<"yu4", "yue">>, TitleDelims)
        m3 == SearchLazyBefore(user_input, <<"hui4", "yi">>)
        m4 == SearchLazyBefore(user_input, <<"huo2", "dong">>)
        m5 == SearchLazyBefore(user_input, <<"ke", "cheng">>)
    IN  IF m1.matched THEN Strip(m1.group)
        ELSE IF m2.matched THEN Strip(m2.group)
        ELSE IF m3.matched THEN Strip(m3.group)
        ELSE IF m4.matched THEN Strip(m4.group)
        ELSE IF m5.matched THEN Strip(m5.group)
        ELSE <<>>

\* The length of the time or date word the text starts with, 0 if none:
\* one alternative of (jin tian|ming tian|hou tian|\d+dian|\d+:\d+|shang wu|
\* xia wu|zao shang|wan shang).
TimeWordLen(text) ==
    LET two == IF Len(text) >= 2 THEN SubSeq(text, 1, 2) ELSE <<>>
        d   == DigitRun(text)
        e   == IF d > 0 /\ Len(text) > d + 1
               THEN DigitRun(SubSeq(text, d + 2, Len(text))) ELSE 0
    IN  IF two \in {<<"jin", "tian">>, <<"ming", "tian">>, <<"hou", "tian">>} THEN 2
        ELSE IF d > 0 /\ Len(text) > d /\ text[d + 1] = "dian" THEN d + 1
        ELSE IF d > 0 /\ Len(text) > d /\ text[d + 1] = ":" /\ e > 0 THEN d + 1 + e
        ELSE IF two \in {<<"shang", "wu">>, <<"xia", "wu">>,
                         <<"zao", "shang">>, <<"wan", "shang">>} THEN 2
        ELSE 0

RECURSIVE RemoveTimeWords(_)
RemoveTimeWords(text) ==
    IF text = <<>> THEN <<>>
    ELSE LET n == TimeWordLen(text)
         IN  IF n > 0 THEN RemoveTimeWords(SubSeq(text, n + 1, Len(text)))
             ELSE <<Head(text)>> \o RemoveTimeWords(Tail(text))

\* The fallback title of _extract_event_info: the input with the time and
\* date words and then the scheduling verbs removed, stripped.
TitleByCleaning(user_input) ==
    Strip(RemoveWords(RemoveTimeWords(user_input),
                      {<<"an", "pai">>, <<"yu4", "yue">>, <<"she", "ding">>}))

\* event_info['title'] of _extract_event_info; <<>> when there is none.
ExtractTitle(user_input) ==
    LET title == TitleByPattern(user_input)
    IN  IF title # <<>> THEN title ELSE TitleByCleaning(user_input)

TicksPerDay == 2
Unspecified == -1

\* datetime.now().date(), as a day number
Today(now) == now \div TicksPerDay

DayOffset(token) ==
    CASE token = "today" -> 0
      [] token = "tomorrow" -> 1
      [] token = "day_after_tomorrow" -> 2

\* The date the calendar tool derives from the text itself when the entities
\* carry none (_extract_event_info, the else branch of the date handling).
DateTokenFromText(user_input) ==
    IF Contains(user_input, <<"jin", "tian">>) \/ Contains(user_input, <<"jin", "ri">>)
        THEN "today"
    ELSE IF Contains(user_input, <<"ming", "tian">>) \/ Contains(user_input, <<"ming", "ri">>)
        THEN "tomorrow"
    ELSE IF Contains(user_input, <<"hou", "tian">>)
        THEN "day_after_tomorrow"
    ELSE "none"

\* event_info['date'] of _extract_event_info: from the entity when there is
\* one, otherwise re-derived from the text; Unspecified when neither gives one.
ExtractDate(user_input, entity_date, now) ==
    LET token == IF entity_date # "none" THEN entity_date
                 ELSE DateTokenFromText(user_input)
    IN  IF token = "none" THEN Unspecified ELSE Today(now) + DayOffset(token)

\* The entities handed to manage_schedule: the date token and the time the
\* classifier extracted ("none", NoTime where it found none), and the text of
\* any other entry a caller put in.
Entities(date, time, other) == [date |-> date, time |-> time, other |-> other]

NoEntities == Entities("none", NoTime, <<>>)

UnspecifiedTime == TimeValue("unspecified", <<>>)

\* (shang wu|...)(\d{1,2})[dian shi2]? matched at position i: the length of
\* the match, 0 when there is no match at i.
PeriodHourLenAt(text, i) ==
    IF IsPeriodAt(text, i) /\ IsDigitAt(text, i + 2)
    THEN LET d == IF IsDigitAt(text, i + 3) THEN 2 ELSE 1
         IN  2 + d + (IF IsMarkAt(text, i + 2 + d) THEN 1 ELSE 0)
    ELSE 0

\* The time the calendar tool derives from the text itself (_extract_event_info,
\* the else branch of the time handling): match.group(0), the whole match, of
\* the first pattern that matches.
TimeFromText(user_input) ==
    LET h == Leftmost({i \in 1..Len(user_input) : HourDigitsAt(user_input, i) > 0})
        c == Leftmost({i \in 1..Len(user_input) : ClockDigitsAt(user_input, i) > 0})
        p == Leftmost({i \in 1..Len(user_input) : PeriodHourLenAt(user_input, i) > 0})
    IN  IF h > 0
        THEN TimeValue("str", <<SubSeq(user_input, h, h + HourDigitsAt(user_input, h))>>)
        ELSE IF c > 0
        THEN TimeValue("str",
                 <<SubSeq(user_input, c, c + ClockDigitsAt(user_input, c) + 2)>>)
        ELSE IF p > 0
        THEN TimeValue("str",
                 <<SubSeq(user_input, p, p + PeriodHourLenAt(user_input, p) - 1)>>)
        ELSE UnspecifiedTime

\* event['time'] of _add_event: the entity when there is one, otherwise
\* re-derived from the text; the placeholder when neither gives one.
ExtractTime(user_input, entity_time) ==
    IF entity_time # NoTime THEN entity_time ELSE TimeFromText(user_input)

\* _extract_event_id: the first run of digits as an integer; -1 for None.
NoId == -1
_extract_event_id(text) ==
    LET starts == {i \in 1..Len(text) : text[i] \in Digits} IN
    IF starts = {} THEN NoId
    ELSE LET i == CHOOSE i \in starts : \A j \in starts : i <= j
             n == DigitRun(SubSeq(text, i, Len(text)))
         IN  IntOf(SubSeq(text, i, i + n - 1))

NoTitle == <<>>

CalReply(kind, id, title, listed) ==
    [kind |-> kind, id |-> id, title |-> title, listed |-> listed]

\* _add_event without the check that a title was found.
AddEvent_Untitled(user_input, entities, evs, counter, now) ==
    LET event == [id |-> counter, title |-> ExtractTitle(user_input),
                  date |-> ExtractDate(user_input, entities.date, now),
                  time |-> ExtractTime(user_input, entities.time)]
    IN  [events |-> Append(evs, event), counter |-> counter + 1,
         reply |-> CalReply("added", event.id, event.title, <<>>)]

\* _add_event with the id taken from the number of stored events.
AddEvent_IdFromLength(user_input, entities, evs, counter, now) ==
    LET title == ExtractTitle(user_input) IN
    IF title = NoTitle
    THEN [events |-> evs, counter |-> counter,
          reply |-> CalReply("need_title", NoId, NoTitle, <<>>)]
    ELSE LET event == [id |-> Len(evs) + 1, title |-> title,
                       date |-> ExtractDate(user_input, entities.date, now),
                       time |-> ExtractTime(user_input, entities.time)]
         IN  [events |-> Append(evs, event), counter |-> counter + 1,
              reply |-> CalReply("added", event.id, event.title, <<>>)]

\* _add_event: the guidance message when no title can be derived, otherwise a
\* new event with the counter's value as id, appended, and the counter advanced.
_add_event(user_input, entities, evs, counter, now) ==
    LET title == ExtractTitle(user_input) IN
    IF title = NoTitle
    THEN [events |-> evs, counter |-> counter,
          reply |-> CalReply("need_title", NoId, NoTitle, <<>>)]
    ELSE LET event == [id |-> counter, title |-> title,
                       date |-> ExtractDate(user_input, entities.date, now),
                       time |-> ExtractTime(user_input, entities.time)]
         IN  [events |-> Append(evs, event), counter |-> counter + 1,
              reply |-> CalReply("added", event.id, event.title, <<>>)]

\* The values in str(entities): the parts of the time and the other entry
\* (the date tokens and the keys are ASCII words).
EntitiesText(entities) ==
    Flatten([i \in 1..Len(entities.time.parts) |-> entities.time.parts[i] \o <<",">>])
        \o entities.other

\* _determine_view_range: the date entity, or a word found in str(entities);
\* the request text is not looked at.
_determine_view_range(entities) ==
    LET text == EntitiesText(entities) IN
    IF entities.date = "today" \/ Contains(text, <<"jin", "tian">>) THEN "today"
    ELSE IF entities.date = "tomorrow" \/ Contains(text, <<"ming", "tian">>) THEN "tomorrow"
    ELSE IF Contains(text, <<"ben", "zhou">>) \/ Contains(text, <<"zhe", "zhou">>)
        THEN "this_week"
    ELSE IF Contains(text, <<"xia", "zhou">>) THEN "next_week"
    ELSE "all"

\* date.weekday(), Monday being 0; day 0 is a Sunday.
Weekday(day) == (day + 6) % 7

\* _filter_events_by_range: the dates are compared as strings, and the
\* placeholder of an event without a date sorts after every date.
_filter_events_by_range(range_type, evs, now) ==
    IF range_type = "today" THEN SelectSeq(evs, LAMBDA e : e.date = Today(now))
    ELSE IF range_type = "tomorrow" THEN SelectSeq(evs, LAMBDA e : e.date = Today(now) + 1)
    ELSE IF range_type = "this_week"
    THEN LET week_start == Today(now) - Weekday(Today(now))
             week_end   == week_start + 6
         IN  SelectSeq(evs, LAMBDA e : /\ e.date # Unspecified
                                       /\ week_start <= e.date /\ e.date <= week_end)
    ELSE evs

\* _view_events: never changes the tool's state
_view_events(entities, evs, counter, now) ==
    IF evs = <<>>
    THEN [events |-> evs, counter |-> counter,
          reply |-> CalReply("no_events", NoId, NoTitle, <<>>)]
    ELSE LET shown == _filter_events_by_range(_determine_view_range(entities), evs, now)
         IN  [events |-> evs, counter |-> counter,
              reply |-> CalReply(IF shown = <<>> THEN "none_in_range" ELSE "listing",
                                 NoId, NoTitle, [i \in 1..Len(shown) |-> shown[i].id])]

\* `if event_id:` -- None and 0 are both false
IdGiven(event_id) == event_id # NoId /\ event_id # 0

\* _delete_event handing the counter's last value back when an event is removed.
DeleteEvent_CounterRewound(user_input, evs, counter) ==
    LET event_id == _extract_event_id(user_input) IN
    IF IdGiven(event_id)
    THEN LET hits == {i \in 1..Len(evs) : evs[i].id = event_id} IN
         IF hits # {}
         THEN LET i == CHOOSE i \in hits : \A j \in hits : i <= j
              IN  [events |-> SubSeq(evs, 1, i - 1) \o SubSeq(evs, i + 1, Len(evs)),
                   counter |-> counter - 1,
                   reply |-> CalReply("deleted", event_id, evs[i].title, <<>>)]
         ELSE [events |-> evs, counter |-> counter,
               reply |-> CalReply("not_found", event_id, NoTitle, <<>>)]
    ELSE [events |-> evs, counter |-> counter,
          reply |-> CalReply("need_id", NoId, NoTitle, <<>>)]

\* _delete_event: pops the first event whose id is the extracted one.
_delete_event(user_input, evs, counter) ==
    LET event_id == _extract_event_id(user_input) IN
    IF IdGiven(event_id)
    THEN LET hits == {i \in 1..Len(evs) : evs[i].id = event_id} IN
         IF hits # {}
         THEN LET i == CHOOSE i \in hits : \A j \in hits : i <= j
              IN  [events |-> SubSeq(evs, 1, i - 1) \o SubSeq(evs, i + 1, Len(evs)),
                   counter |-> counter,
                   reply |-> CalReply("deleted", event_id, evs[i].title, <<>>)]
         ELSE [events |-> evs, counter |-> counter,
               reply |-> CalReply("not_found", event_id, NoTitle, <<>>)]
    ELSE [events |-> evs, counter |-> counter,
          reply |-> CalReply("need_id", NoId, NoTitle, <<>>)]

\* _update_event carrying the change out on the event the text names.
UpdateEvent_Applied(user_input, entities, evs, counter) ==
    _delete_event(user_input, evs, counter)

\* _update_event: the static guidance text; the text and the entities are
\* not looked at.
_update_event(user_input, entities, evs, counter) ==
    [events |-> evs, counter |-> counter,
     reply |-> CalReply("update_guidance", NoId, NoTitle, <<>>)]

_provide_schedule_help(evs, counter) ==
    [events |-> evs, counter |-> counter,
     reply |-> CalReply("help", NoId, NoTitle, <<>>)]

\* manage_schedule: the tool's state after the request and its reply.
manage_schedule(user_input, entities, evs, counter, now) ==
    LET intent == _detect_schedule_intent(user_input) IN
    IF intent = "add" THEN _add_event(user_input, entities, evs, counter, now)
    ELSE IF intent = "view" THEN _view_events(entities, evs, counter, now)
    ELSE IF intent = "delete" THEN _delete_event(user_input, evs, counter)
    ELSE IF intent = "update" THEN _update_event(user_input, entities, evs, counter)
    ELSE _provide_schedule_help(evs, counter)

-----------------------------------------------------------------------------
(* EmailTool (tools/email.py).                                             *)

UserAddress ==
    <<"u", "s", "e", "r", "@", "e", "m", "a", "i", "l", ".", "c", "o", "m">>

\* self.mock_emails as __init__ builds it.
SeedMailbox ==
    << [id |-> 1,
        from |->
            <<"j", "o", "h", "n", ".", "d", "o", "e", "@", "c", "o", "m", "p",
            "a", "n", "y", ".", "c", "o", "m">>,
        to |-> UserAddress,
        subject |->
            <<"zhou", "hui4", "yi", "cheng", "que", "ren4">>,
        body |->
            <<"qing3", "que", "ren4", "ming", "tian", "de", "zhou", "hui4",
            "yi", "cheng", "fwcomma", "hui4", "yi", "shi2", "jian1", "shi",
            "shang", "wu", "1", "0", "dian", "fwstop">>,
        date |-> "2024-06-11", read |-> FALSE, priority |-> "normal"],
       [id |-> 2,
        from |->
            <<"h", "r", "@", "c", "o", "m", "p", "a", "n", "y", ".", "c", "o",
            "m">>,
        to |-> UserAddress,
        subject |->
            <<"nian", "jia4", "shen1", "qing3", "shen3", "he2">>,
        body |->
            <<"nin", "de", "nian", "jia4", "shen1", "qing3", "yi3", "tong1",
            "guo", "shen3", "he2", "fwcomma", "qing3", "cha", "kan", "fu4",
            "jian", "fwstop">>,
        date |-> "2024-06-10", read |-> TRUE, priority |-> "high"],
       [id |-> 3,
        from |->
            <<"c", "l", "i", "e", "n", "t", "@", "e", "x", "t", "e", "r", "n",
            "a", "l", ".", "c", "o", "m">>,
        to |-> UserAddress,
        subject |->
            <<"zhuan1", "an4", "jin4", "du4", "xun2", "wen4">>,
        body |->
            <<"xiang3", "le", "jie3", "yi1", "xia", "mu", "qian", "zhuan1",
            "an4", "de", "jin4", "du4", "ru", "he3", "fwqmark", "yu4", "ji4",
            "shen2", "me", "shi2", "hou4", "ke3", "yi6", "wan2", "cheng2",
            "fwqmark">>,
        date |-> "2024-06-09", read |-> FALSE, priority |-> "urgent"] >>

read_keywords ==
    { <<"cha", "kan">>, <<"du">>, <<"xian", "shi4">>, <<"you", "jian">>,
      <<"xin4", "jian">>, <<"r", "e", "a", "d">>, <<"s", "h", "o", "w">>,
      <<"v", "i", "e", "w">> }

compose_keywords ==
    { <<"xie">>, <<"zhuan", "xie">>, <<"fa", "song">>, <<"ji">>,
      <<"c", "o", "m", "p", "o", "s", "e">>, <<"w", "r", "i", "t", "e">>,
      <<"s", "e", "n", "d">> }

reply_keywords ==
    { <<"hui2", "fu">>, <<"hui2", "xin4">>, <<"r", "e", "p", "l", "y">>,
      <<"r", "e", "s", "p", "o", "n", "d">> }

search_keywords ==
    { <<"sou", "xun">>, <<"cha", "zhao">>, <<"zhao">>,
      <<"s", "e", "a", "r", "c", "h">>, <<"f", "i", "n", "d">> }

summary_keywords ==
    { <<"zhai", "yao">>, <<"zong", "jie">>, <<"gai", "yao">>,
      <<"s", "u", "m", "m", "a", "r", "y">>, <<"o", "v", "e", "r", "v", "i", "e", "w">> }

template_keywords ==
    { <<"mo", "ban">>, <<"fan", "ben">>, <<"t", "e", "m", "p", "l", "a", "t", "e">> }

_detect_email_intent(user_input) ==
    LET user_input_lower == Lower(user_input) IN
    IF AnyIn(read_keywords, user_input_lower) THEN "read"
    ELSE IF AnyIn(compose_keywords, user_input_lower) THEN "compose"
    ELSE IF AnyIn(reply_keywords, user_input_lower) THEN "reply"
    ELSE IF AnyIn(search_keywords, user_input_lower) THEN "search"
    ELSE IF AnyIn(summary_keywords, user_input_lower) THEN "summary"
    ELSE IF AnyIn(template_keywords, user_input_lower) THEN "template"
    ELSE "help"

\* _extract_email_id: the first run of digits as an integer; NoId for None.
_extract_email_id(text) ==
    LET starts == {i \in 1..Len(text) : text[i] \in Digits} IN
    IF starts = {} THEN NoId
    ELSE LET i == CHOOSE i \in starts : \A j \in starts : i <= j
             n == DigitRun(SubSeq(text, i, Len(text)))
         IN  IntOf(SubSeq(text, i, i + n - 1))

\* _find_email_by_id: the index of the first message with that id, 0 for None.
_find_email_by_id(mails, email_id) ==
    LET hits == {i \in 1..Len(mails) : mails[i].id = email_id} IN
    IF hits = {} THEN 0 ELSE CHOOSE i \in hits : \A j \in hits : i <= j

\* The priority labels of the two formatters: an unknown priority is shown
\* as normal.
PriorityIcon(priority) ==
    IF priority \in {"urgent", "high", "normal"} THEN priority ELSE "normal"

NoMessage ==
    [id |-> NoId, subject |-> <<>>, from |-> <<>>, to |-> <<>>, date |-> "",
     priority_icon |-> "", body |-> <<>>]

\* _format_single_email: the fields the text shows; the id is the one of the
\* two suggested commands.
_format_single_email(email) ==
    [id |-> email.id, subject |-> email.subject, from |-> email.from,
     to |-> email.to, date |-> email.date,
     priority_icon |-> PriorityIcon(email.priority), body |-> email.body]

PreviewLen == 50

\* One entry of _format_email_list.
ListEntry(email) ==
    [id |-> email.id, subject |-> email.subject, from |-> email.from,
     date |-> email.date, priority_icon |-> PriorityIcon(email.priority),
     read_status |-> email.read,
     preview |-> SubSeq(email.body, 1, Min(PreviewLen, Len(email.body)))]

\* The ids of the listed messages, in order.
IdsOf(listed) == [i \in 1..Len(listed) |-> listed[i].id]

\* _format_email_list: the entries in order (their count is the statistic).
_format_email_list(emails) == [i \in 1..Len(emails) |-> ListEntry(emails[i])]

NoDraft ==
    [to |-> <<>>, subject |-> <<>>, body |-> "none", quoted_from |-> <<>>,
     quoted_subject |-> <<>>, quoted_body |-> <<>>]

NoSummary ==
    [total_emails |-> 0, unread_emails |-> 0, urgent_emails |-> 0,
     latest_unread |-> <<>>, reply_example |-> NoId]

\* The text process_email returns, by the parts that vary.
NoMailReply ==
    [kind |-> "none", id |-> NoId, listed |-> <<>>, message |-> NoMessage,
     draft |-> NoDraft, keywords |-> <<>>, template |-> "none",
     summary |-> NoSummary]

MailReply(kind, id, listed) ==
    [NoMailReply EXCEPT !.kind = kind, !.id = id, !.listed = listed]

LatestLen == 5

\* The read branch without its assignment to email['read'].
MarkRead_Untouched(email) == email

\* email['read'] = True
MarkRead(email) == [email EXCEPT !.read = TRUE]

\* _read_emails: by id (marking the message read) or a filtered list.
\* `if email_id:` is false for None and for 0.
_read_emails(user_input, mails) ==
    LET email_id == _extract_email_id(user_input) IN
    IF email_id # NoId /\ email_id # 0
    THEN LET i == _find_email_by_id(mails, email_id) IN
         IF i # 0
         THEN [emails |-> [mails EXCEPT ![i] = MarkRead(mails[i])],
               reply |-> [MailReply("single", email_id, <<>>)
                             EXCEPT !.message = _format_single_email(mails[i])]]
         ELSE [emails |-> mails, reply |-> MailReply("not_found", email_id, <<>>)]
    ELSE LET unread    == Contains(user_input, <<"wei", "du">>)
                          \/ Contains(Lower(user_input), <<"u", "n", "r", "e", "a", "d">>)
             important == Contains(user_input, <<"zhong", "yao">>)
                          \/ Contains(Lower(user_input),
                                      <<"i", "m", "p", "o", "r", "t", "a", "n", "t">>)
             chosen ==
                 IF unread THEN SelectSeq(mails, LAMBDA e : ~e.read)
                 ELSE IF important
                 THEN SelectSeq(mails, LAMBDA e : e.priority \in {"high", "urgent"})
                 ELSE SubSeq(mails, Max(1, Len(mails) - LatestLen + 1), Len(mails))
             title == IF unread THEN "list_unread"
                      ELSE IF important THEN "list_important" ELSE "list_latest"
         IN  [emails |-> mails,
              reply |-> IF chosen = <<>> THEN MailReply("none_found", NoId, <<>>)
                        ELSE MailReply(title, NoId, _format_email_list(chosen))]

Letters ==
    { "a", "b", "c", "d", "e", "f", "g", "h", "i", "j", "k", "l", "m", "n", "o",
      "p", "q", "r", "s", "t", "u", "v", "w", "x", "y", "z" } \cup UpperLetters

LocalChars  == Letters \cup Digits \cup {".", "_", "%", "+", "-"}
DomainChars == Letters \cup Digits \cup {".", "-"}

\* The length of the run of characters of cs that text starts with.
RECURSIVE RunOf(_, _)
RunOf(text, cs) ==
    IF text # <<>> /\ Head(text) \in cs THEN 1 + RunOf(Tail(text), cs) ELSE 0

\* A match of [a-zA-Z0-9._%+-]+@[a-zA-Z0-9.-]+\.[a-zA-Z]{2,} starting at i:
\* the index of its last character, 0 when there is none.  The domain run is
\* greedy and gives characters back until a dot and two letters follow it.
AddressEnd(text, i) ==
    LET n == RunOf(SubSeq(text, i, Len(text)), LocalChars)
        a == i + n
    IN  IF n = 0 \/ a > Len(text) \/ text[a] # "@" THEN 0
        ELSE LET m    == RunOf(SubSeq(text, a + 1, Len(text)), DomainChars)
                 dots == {d \in 1..(m - 1) :
                             /\ text[a + d + 1] = "."
                             /\ RunOf(SubSeq(text, a + d + 2, Len(text)), Letters) >= 2}
             IN  IF dots = {} THEN 0
                 ELSE LET d == CHOOSE d \in dots : \A e \in dots : d >= e
                      IN  a + d + 1 + RunOf(SubSeq(text, a + d + 2, Len(text)), Letters)

\* re.findall(email_pattern, user_input)[0], <<>> when nothing matches.
FirstAddress(text) ==
    LET starts == {i \in 1..Len(text) : AddressEnd(text, i) # 0} IN
    IF starts = {} THEN <<>>
    ELSE LET i == CHOOSE i \in starts : \A j \in starts : i <= j
         IN  SubSeq(text, i, AddressEnd(text, i))

\* re.search(kw + '(.+?)' + closer, text): the first occurrence of kw that a
\* closer follows after at least one character; the group runs to the first
\* such closer.
SearchLazyBetween(text, kw, closer) ==
    LET closes(p) == {q \in (p + Len(kw) + 1)..Len(text) : text[q] = closer}
        hits == {p \in 1..(Len(text) - Len(kw) + 1) :
                    SubSeq(text, p, p + Len(kw) - 1) = kw /\ closes(p) # {}}
    IN  IF hits = {} THEN NoMatch
        ELSE LET p == CHOOSE p \in hits : \A j \in hits : p <= j
                 q == CHOOSE q \in closes(p) : \A j \in closes(p) : q <= j
             IN  [matched |-> TRUE, group |-> SubSeq(text, p + Len(kw), q - 1)]

\* SearchLazyAfter for a keyword with alternatives ('主旨[：:]'): the leftmost
\* alternative wins.
SearchLazyAfterAny(text, kws, delims) ==
    LET found == {r \in {[p |-> FirstIndex(text, kw),
                          m |-> SearchLazyAfter(text, kw, delims)] : kw \in kws} :
                     r.m.matched}
    IN  IF found = {} THEN NoMatch
        ELSE (CHOOSE r \in found : \A s \in found : r.p <= s.p).m

\* subject_patterns of _extract_email_info, in order; the first that matches
\* gives the subject.
SubjectMatch(user_input) ==
    LET about   == SearchLazyBetween(user_input, <<"guan", "yu2">>, "de")
        mail    == SearchLazyBefore(user_input, <<"you", "jian">>)
        subject == SearchLazyAfterAny(user_input,
                       { <<"zhu3", "zhi3", "fwcolon">>, <<"zhu3", "zhi3", ":">> },
                       {"fwcomma"})
        heading == SearchLazyAfterAny(user_input,
                       { <<"biao", "ti2", "fwcolon">>, <<"biao", "ti2", ":">> },
                       {"fwcomma"})
    IN  IF about.matched THEN about
        ELSE IF mail.matched THEN mail
        ELSE IF subject.matched THEN subject
        ELSE heading

\* _extract_email_info.  has_recipient and has_subject say whether the key is
\* in the dictionary; a subject that is present may be empty.
_extract_email_info(user_input) ==
    LET recipient == FirstAddress(user_input)
        found     == SubjectMatch(user_input)
        subject   == IF found.matched THEN Strip(found.group) ELSE <<>>
        type      == IF Contains(user_input, <<"hui4", "yi">>) THEN "meeting"
                     ELSE IF Contains(user_input, <<"zhuan1", "an4">>)
                             \/ Contains(user_input, <<"xiang4", "mu">>) THEN "project"
                     ELSE IF Contains(user_input, <<"xun2", "wen4">>)
                             \/ Contains(user_input, <<"qing3", "wen4">>) THEN "inquiry"
                     ELSE "general"
        default   == CASE type = "meeting" -> <<"hui4", "yi", "an", "pai">>
                       [] type = "project" -> <<"zhuan1", "an4", "xiang1", "guan">>
                       [] type = "inquiry" -> <<"xun2", "wen4">>
                       [] OTHER            -> <<>>
    IN  [has_recipient |-> recipient # <<>>, recipient |-> recipient,
         has_subject |-> found.matched \/ type # "general",
         subject |-> IF subject = <<>> /\ type # "general" THEN default ELSE subject,
         type |-> type]

RecipientPlaceholder == <<"[", "shou", "jian", "zhe", "]">>
SubjectPlaceholder == <<"[", "zhu3", "zhi3", "]">>

\* _generate_email_draft: recipient, subject and the body chosen by the type.
_generate_email_draft(email_info) ==
    [NoDraft EXCEPT
        !.to = IF email_info.has_recipient THEN email_info.recipient
               ELSE RecipientPlaceholder,
        !.subject = IF email_info.has_subject THEN email_info.subject
                    ELSE SubjectPlaceholder,
        !.body = email_info.type]

\* What _compose_email answers: guidance when neither a subject nor a
\* recipient was found, the draft otherwise.
ComposeReply(email_info) ==
    IF email_info.subject = <<>> /\ email_info.recipient = <<>>
    THEN MailReply("compose_guidance", NoId, <<>>)
    ELSE [MailReply("compose_draft", NoId, <<>>)
              EXCEPT !.draft = _generate_email_draft(email_info)]

\* _compose_email keeping the draft it generated in self.draft_emails.
ComposeEmail_Stored(user_input, drafts) ==
    LET reply == ComposeReply(_extract_email_info(user_input)) IN
    [drafts |-> IF reply.kind = "compose_draft" THEN Append(drafts, reply.draft)
                ELSE drafts,
     reply |-> reply]

\* _compose_email: returns text; self.draft_emails is not written.
_compose_email(user_input, drafts) ==
    [drafts |-> drafts, reply |-> ComposeReply(_extract_email_info(user_input))]

QuoteLen == 100
RePrefix == <<"R", "e", ":", " ">>

\* _reply_email.  `if not email_id:` is true for None and for 0.
_reply_email(user_input, mails) ==
    LET email_id == _extract_email_id(user_input) IN
    IF email_id = NoId \/ email_id = 0
    THEN MailReply("reply_need_id", NoId, <<>>)
    ELSE LET i == _find_email_by_id(mails, email_id) IN
         IF i = 0 THEN MailReply("not_found", email_id, <<>>)
         ELSE [MailReply("reply_draft", email_id, <<>>) EXCEPT
                  !.draft = [to |-> mails[i].from,
                             subject |-> RePrefix \o mails[i].subject,
                             body |-> "reply",
                             quoted_from |-> mails[i].from,
                             quoted_subject |-> mails[i].subject,
                             quoted_body |->
                                 SubSeq(mails[i].body, 1,
                                        Min(QuoteLen, Len(mails[i].body)))]]

SearchCommandWords ==
    { <<"sou", "xun">>, <<"cha", "zhao">>, <<"zhao">>, <<"bao", "han">>,
      <<"guan", "yu2">>, <<"s", "e", "a", "r", "c", "h">>, <<"f", "i", "n", "d">> }

\* RemoveWords with re.IGNORECASE.
RECURSIVE RemoveWordsIgnoreCase(_, _)
RemoveWordsIgnoreCase(text, words) ==
    IF text = <<>> THEN <<>>
    ELSE LET here == {w \in words : Len(w) <= Len(text)
                                    /\ Lower(SubSeq(text, 1, Len(w))) = Lower(w)}
         IN  IF here # {}
             THEN LET w == CHOOSE w \in here : TRUE
                  IN  RemoveWordsIgnoreCase(SubSeq(text, Len(w) + 1, Len(text)), words)
             ELSE <<Head(text)>> \o RemoveWordsIgnoreCase(Tail(text), words)

\* _extract_search_keywords: the command words removed, the rest split on
\* blanks, words of one character dropped.
_extract_search_keywords(user_input) ==
    SelectSeq(SplitWords(Strip(RemoveWordsIgnoreCase(user_input, SearchCommandWords))),
              LAMBDA kw : Len(kw) > 1)

\* keyword found in the subject, the body or the sender, ignoring case
MatchesKeyword(email, keyword) ==
    \/ Contains(Lower(email.subject), Lower(keyword))
    \/ Contains(Lower(email.body), Lower(keyword))
    \/ Contains(Lower(email.from), Lower(keyword))

\* _search_emails
_search_emails(user_input, mails) ==
    LET keywords == _extract_search_keywords(user_input)
        results  == SelectSeq(mails,
                        LAMBDA e : \E k \in 1..Len(keywords) : MatchesKeyword(e, keywords[k]))
    IN  IF keywords = <<>> THEN MailReply("search_need_keywords", NoId, <<>>)
        ELSE IF results = <<>>
        THEN [MailReply("search_none", NoId, <<>>) EXCEPT !.keywords = keywords]
        ELSE [MailReply("search_results", NoId, _format_email_list(results))
                  EXCEPT !.keywords = keywords]

SummaryLen == 3

\* _summarize_emails: the counts, the last three unread messages and the id
\* of the example reply command.
_summarize_emails(mails) ==
    LET unread        == SelectSeq(mails, LAMBDA e : ~e.read)
        urgent        == SelectSeq(mails, LAMBDA e : e.priority = "urgent")
        latest_unread == SubSeq(unread, Max(1, Len(unread) - SummaryLen + 1), Len(unread))
    IN  [MailReply("summary", NoId, <<>>) EXCEPT
            !.summary = [total_emails |-> Len(mails), unread_emails |-> Len(unread),
                         urgent_emails |-> Len(urgent),
                         latest_unread |->
                             [i \in 1..Len(latest_unread) |->
                                 [subject |-> latest_unread[i].subject,
                                  from |-> latest_unread[i].from]],
                         reply_example |-> IF latest_unread # <<>>
                                           THEN latest_unread[1].id ELSE 1]]

\* _detect_template_type
_detect_template_type(user_input) ==
    LET user_input_lower == Lower(user_input) IN
    IF Contains(user_input_lower, <<"hui4", "yi">>)
       \/ Contains(user_input_lower, <<"m", "e", "e", "t", "i", "n", "g">>)
    THEN "meeting_invite"
    ELSE IF Contains(user_input_lower, <<"zhuan1", "an4">>)
       \/ Contains(user_input_lower, <<"p", "r", "o", "j", "e", "c", "t">>)
    THEN "project_update"
    ELSE IF Contains(user_input_lower, <<"zhui", "zong1">>)
       \/ Contains(user_input_lower, <<"f", "o", "l", "l", "o", "w">>)
    THEN "follow_up"
    ELSE "meeting_invite"

\* The keys of self.templates
TemplateNames == {"meeting_invite", "project_update", "follow_up"}

\* _use_template
_use_template(user_input) ==
    LET template_name == _detect_template_type(user_input) IN
    IF template_name \notin TemplateNames
    THEN MailReply("template_list", NoId, <<>>)
    ELSE [MailReply("template", NoId, <<>>) EXCEPT !.template = template_name]

\* _provide_email_help
_provide_email_help == MailReply("help", NoId, <<>>)

\* process_email: the mailbox and the drafts after the request, and the reply.
process_email(user_input, mails, drafts) ==
    LET intent == _detect_email_intent(user_input) IN
    IF intent = "read"
    THEN LET r == _read_emails(user_input, mails)
         IN  [emails |-> r.emails, drafts |-> drafts, reply |-> r.reply]
    ELSE IF intent = "compose"
    THEN LET r == _compose_email(user_input, drafts)
         IN  [emails |-> mails, drafts |-> r.drafts, reply |-> r.reply]
    ELSE [emails |-> mails, drafts |-> drafts,
          reply |-> CASE intent = "reply"    -> _reply_email(user_input, mails)
                      [] intent = "search"   -> _search_emails(user_input, mails)
                      [] intent = "summary"  -> _summarize_emails(mails)
                      [] intent = "template" -> _use_template(user_input)
                      [] OTHER               -> _provide_email_help]

-----------------------------------------------------------------------------
(* PersonalAssistant: _use_tool, _generate_response, process_request.      *)

\* The keys of self.tools
ToolNames == {"weather", "calendar", "email"}

\* The check of _use_tool without its `not self.tools[tool_name]` half.
ToolPresent_KeyOnly(tool_name, api_key) == tool_name \in ToolNames

\* self.tools[tool_name] is a tool object: the weather tool is built only
\* when a weather API key was supplied (__init__).
ToolPresent(tool_name, api_key) ==
    tool_name \in ToolNames /\ (tool_name = "weather" => api_key)

NoFault == "none"
NoBody  == [tool |-> "none", kind |-> "none", id |-> NoId, title |-> <<>>,
            listed |-> <<>>, city |-> <<>>]

\* The strings _use_tool returns: which message, for which tool, carrying
\* which exception text, or the tool's own output.
ToolResult(kind, tool_name, exc, body) ==
    [kind |-> kind, tool |-> tool_name, exc |-> exc, body |-> body]

NoResult == ToolResult("none", "none", NoFault, NoBody)

DefaultCity == <<"tai", "bei">>

\* WeatherTool.get_weather: every failure of the lookup is turned into a
\* message by the tool itself, so the call always returns.
WeatherOutcomes == {"report", "timeout", "network_error", "city_not_found",
                    "api_error", "parse_error"}

\* _use_tool without its except clause: the exception leaves _use_tool.
CatchToolException_Missing(tool_name, exc) ==
    [raised |-> TRUE, result |-> NoResult]

\* The except clause of _use_tool: the exception becomes the returned string.
CatchToolException(tool_name, exc) ==
    [raised |-> FALSE, result |-> ToolResult("tool_error", tool_name, exc, NoBody)]

\* What _use_tool returns when the tool call raised.
Caught(caught, tool_name, st) ==
    [st |-> st, raised |-> caught.raised, ran |-> tool_name, result |-> caught.result]

\* What _use_tool returns after tool.manage_schedule returned r.
CalendarReturned(r, st) ==
    [st |-> [st EXCEPT !.events = r.events, !.counter = r.counter],
     raised |-> FALSE, ran |-> "calendar",
     result |-> ToolResult("output", "calendar", NoFault,
                   [NoBody EXCEPT !.tool = "calendar", !.kind = r.reply.kind,
                                  !.id = r.reply.id, !.title = r.reply.title,
                                  !.listed = r.reply.listed])]

\* What _use_tool returns after tool.process_email returned r.
EmailReturned(r, st) ==
    [st |-> [st EXCEPT !.emails = r.emails, !.drafts = r.drafts],
     raised |-> FALSE, ran |-> "email",
     result |-> ToolResult("output", "email", NoFault,
                   [NoBody EXCEPT !.tool = "email", !.kind = r.reply.kind,
                                  !.id = r.reply.id,
                                  !.listed = IdsOf(r.reply.listed)])]

\* _use_tool.  st is the tool state it may change; fault is the exception the
\* tool call raises (NoFault when it returns), wx the outcome of the weather
\* lookup.  ran names the tool whose operation was entered.
_use_tool(tool_name, intent, user_input, st, fault, wx) ==
    IF ~ToolPresent(tool_name, st.api_key)
    THEN [st |-> st, raised |-> FALSE, ran |-> "none",
          result |-> ToolResult("not_configured", tool_name, NoFault, NoBody)]
    ELSE IF fault # NoFault
    THEN Caught(CatchToolException(tool_name, fault), tool_name, st)
    ELSE IF tool_name = "weather"
    THEN LET city == IF intent.city # NoCity THEN intent.city ELSE DefaultCity
         IN  [st |-> [st EXCEPT !.lookups = @ + 1], raised |-> FALSE, ran |-> "weather",
              result |-> ToolResult("output", tool_name, NoFault,
                            [NoBody EXCEPT !.tool = "weather", !.kind = wx, !.city = city])]
    ELSE IF tool_name = "calendar"
    THEN CalendarReturned(
             manage_schedule(user_input, Entities(intent.date, intent.time, <<>>),
                             st.events, st.counter, st.now), st)
    ELSE EmailReturned(process_email(user_input, st.emails, st.drafts), st)

\* The dispatch condition with >= in place of >.
ShouldUseTool_Inclusive(intent) == intent.type # "general" /\ intent.confidence >= 5

\* `intent['type'] != 'general' and intent['confidence'] > 0.5`
ShouldUseTool(intent) == intent.type # "general" /\ intent.confidence > 5

\* _generate_response: the prompt is built from the input, the context and
\* the memories and handed to the model; a failure of the call is returned as
\* an error string.
_generate_response(user_input, context, memories_in, gen) ==
    [kind |-> IF gen = "text" THEN "generated" ELSE "generation_error",
     prompt |-> [user_input |-> user_input, context |-> context,
                 memories |-> memories_in]]

NoPrompt == [user_input |-> <<>>,
             context |-> [tool_result |-> NoResult],
             memories |-> 0]

\* process_request after _use_tool returned u (or let an exception through).
RespondWithTool(u, intent, user_input, memories_in, gen) ==
    [st |-> u.st, intent |-> intent, use_tool_called |-> TRUE,
     ran |-> u.ran, result |-> u.result,
     response |->
         IF u.raised THEN [kind |-> "uncaught_exception", prompt |-> NoPrompt]
         ELSE _generate_response(user_input, [tool_result |-> u.result],
                                 memories_in, gen)]

\* process_request from the classified intent on: the context, the tool call
\* and the response (the chat history it appends to the context is left out).
RespondToIntent(intent, user_input, memories_in, st, fault, wx, gen) ==
    IF ShouldUseTool(intent)
    THEN RespondWithTool(_use_tool(intent.type, intent, user_input, st, fault, wx),
                         intent, user_input, memories_in, gen)
    ELSE LET context == [tool_result |-> NoResult]
         IN  [st |-> st, intent |-> intent, use_tool_called |-> FALSE,
              ran |-> "none", result |-> NoResult,
              response |-> _generate_response(user_input, context, memories_in, gen)]

BlankIntent ==
    [type |-> "general", confidence |-> 0, city |-> NoCity, date |-> "none",
     time |-> NoTime]

\* process_request
process_request(user_input, memories_in, st, fault, wx, gen) ==
    IF Strip(user_input) = <<>>
    THEN [st |-> st, intent |-> BlankIntent, use_tool_called |-> FALSE,
          ran |-> "none", result |-> NoResult,
          response |-> [kind |-> "ask_for_input", prompt |-> NoPrompt]]
    ELSE RespondToIntent(_detect_intent(user_input), user_input, memories_in,
                         st, fault, wx, gen)

-----------------------------------------------------------------------------
(* ConversationMemory (memory.py).                                         *)

Punctuation == {"?", "!", ":", ".", ",", "@", "-", "fwcomma", "fwqmark"}

stop_words ==
    { <<"de">>, <<"shi">>, <<"zai">>, <<"le">>, <<"you3">>, <<"he">>, <<"jiu">>,
      <<"dou">>, <<"er">>, <<"ji2">>, <<"yu">>, <<"huo">>, <<"dan">>, <<"bu">>,
      <<"mei">>, <<"hen">>, <<"hai2">>, <<"ye">>, <<"zhi">>, <<"zai4">>, <<"geng">>,
      <<"zui">>, <<"fei", "chang">>,
      <<"t", "h", "e">>, <<"i", "s">>, <<"a", "t">>, <<"w", "h", "i", "c", "h">>,
      <<"o", "n">>, <<"a", "n", "d">>, <<"a">>, <<"t", "o">>, <<"a", "s">>,
      <<"a", "r", "e">>, <<"w", "a", "s">>, <<"w", "i", "l", "l">>, <<"b", "e">>,
      <<"h", "a", "v", "e">>, <<"h", "a", "s">>, <<"h", "a", "d">>, <<"d", "o">>,
      <<"d", "o", "e", "s">>, <<"d", "i", "d">> }

MaxKeywords == 10

\* _extract_keywords: lower-cased, punctuation turned into blanks, split,
\* words of one character and stop words dropped, the first ten kept.
_extract_keywords(text) ==
    LET lowered  == Lower(text)
        cleaned  == [i \in 1..Len(lowered) |->
                        IF lowered[i] \in Punctuation THEN " " ELSE lowered[i]]
        keywords == SelectSeq(SplitWords(cleaned),
                              LAMBDA word : Len(word) > 1 /\ word \notin stop_words)
    IN  SubSeq(keywords, 1, Min(MaxKeywords, Len(keywords)))

\* The category keyword lists of _categorize_memory, in dictionary order.
categories ==
    << [name |-> "weather",
        keywords |-> { <<"tian", "qi">>, <<"qi", "wen">>, <<"xia", "yu3">>,
                       <<"qing", "tian">>, <<"w", "e", "a", "t", "h", "e", "r">> }],
       [name |-> "schedule",
        keywords |-> { <<"hui4", "yi">>, <<"an", "pai">>, <<"ri", "cheng">>,
                       <<"yue", "hui4">>, <<"m", "e", "e", "t", "i", "n", "g">>,
                       <<"s", "c", "h", "e", "d", "u", "l", "e">> }],
       [name |-> "email",
        keywords |-> { <<"you", "jian">>, <<"xin4", "jian">>, <<"ji", "xin4">>,
                       <<"e", "m", "a", "i", "l">>, <<"m", "a", "i", "l">> }],
       [name |-> "personal",
        keywords |-> { <<"wo">>, <<"wo", "de">>, <<"ge", "ren">>, <<"xi", "huan">>,
                       <<"pian", "hao">>, <<"m", "y">>,
                       <<"p", "e", "r", "s", "o", "n", "a", "l">> }],
       [name |-> "work",
        keywords |-> { <<"gong", "zuo">>, <<"gong", "si">>, <<"tong", "shi3">>,
                       <<"zhuan1", "an4">>, <<"w", "o", "r", "k">>,
                       <<"p", "r", "o", "j", "e", "c", "t">>,
                       <<"c", "o", "m", "p", "a", "n", "y">> }] >>

_categorize_memory(user_input) ==
    LET hits == {i \in 1..Len(categories) :
                    AnyIn(categories[i].keywords, Lower(user_input))}
    IN  IF hits = {} THEN "general"
        ELSE categories[CHOOSE i \in hits : \A j \in hits : i <= j].name

\* A value of a preference list: a str (one part) or, for a pattern with two
\* groups, the tuple re.findall returns; a list once it went through JSON.
PrefValue(tag, parts) == [tag |-> tag, parts |-> parts]

\* re.findall(literal + '(.+)', text): the rest of the text after the first
\* occurrence of the literal, when there is a rest.
FindAllAfter(text, literal) ==
    LET p    == FirstIndex(text, literal)
        rest == SubSeq(text, p + Len(literal), Len(text))
    IN  IF p = 0 \/ rest = <<>> THEN <<>> ELSE <<PrefValue("str", <<rest>>)>>

\* re.findall('wo de(.+)shi(.+)', text): both groups greedy, so the first
\* group runs to the last "shi" that leaves both groups non-empty; the result
\* is a list with one tuple.
FindAllAttributes(text) ==
    LET p    == FirstIndex(text, <<"wo", "de">>)
        cuts == {j \in (p + 3)..(Len(text) - 1) : text[j] = "shi"}
    IN  IF p = 0 \/ cuts = {} THEN <<>>
        ELSE LET j == CHOOSE j \in cuts : \A k \in cuts : k <= j
             IN  <<PrefValue("tuple", <<SubSeq(text, p + 2, j - 1),
                                         SubSeq(text, j + 1, Len(text))>>)>>

NoPreferences ==
    [likes |-> <<>>, dislikes |-> <<>>, attributes |-> <<>>, location |-> <<>>,
     job |-> <<>>, name |-> <<>>]

\* A preference record in which the matches of a call take the place of the
\* values a kind held.
ExtractUserPreferences_Replaced(user_input, prefs) ==
    LET Put(old, matches) == IF matches = <<>> THEN old ELSE matches
    IN  [likes      |-> Put(prefs.likes, FindAllAfter(user_input, <<"wo", "xi", "huan">>)),
         dislikes   |-> Put(prefs.dislikes,
                            FindAllAfter(user_input, <<"wo", "bu", "xi", "huan">>)),
         attributes |-> Put(prefs.attributes, FindAllAttributes(user_input)),
         location   |-> Put(prefs.location,
                            FindAllAfter(user_input, <<"wo", "zhu4", "zai">>)),
         job        |-> Put(prefs.job,
                            FindAllAfter(user_input, <<"wo", "de", "gong", "zuo", "shi">>)),
         name       |-> Put(prefs.name, FindAllAfter(user_input, <<"wo", "jiao">>))]

\* _extract_user_preferences: each pattern's matches are appended to the list
\* of its kind (a kind without values is a kind the dictionary does not hold).
_extract_user_preferences(user_input, prefs) ==
    [likes      |-> prefs.likes \o FindAllAfter(user_input, <<"wo", "xi", "huan">>),
     dislikes   |-> prefs.dislikes
                      \o FindAllAfter(user_input, <<"wo", "bu", "xi", "huan">>),
     attributes |-> prefs.attributes \o FindAllAttributes(user_input),
     location   |-> prefs.location \o FindAllAfter(user_input, <<"wo", "zhu4", "zai">>),
     job        |-> prefs.job
                      \o FindAllAfter(user_input, <<"wo", "de", "gong", "zuo", "shi">>),
     name       |-> prefs.name \o FindAllAfter(user_input, <<"wo", "jiao">>)]

\* re.findall(r'(\d{1,2}:\d{2})', text)
RECURSIVE FindAllClockTimes(_)
FindAllClockTimes(text) ==
    IF text = <<>> THEN <<>>
    ELSE LET two == /\ Len(text) >= 5
                    /\ text[1] \in Digits /\ text[2] \in Digits /\ text[3] = ":"
                    /\ text[4] \in Digits /\ text[5] \in Digits
             one == /\ Len(text) >= 4
                    /\ text[1] \in Digits /\ text[2] = ":"
                    /\ text[3] \in Digits /\ text[4] \in Digits
             n   == IF two THEN 5 ELSE IF one THEN 4 ELSE 0
         IN  IF n > 0
             THEN <<SubSeq(text, 1, n)>> \o FindAllClockTimes(SubSeq(text, n + 1, Len(text)))
             ELSE FindAllClockTimes(Tail(text))

EventWords == { <<"hui4", "yi">>, <<"huo2", "dong">>, <<"yue", "hui4">> }

\* re.findall(r'([\d\w\s]+(?:hui yi|huo dong|yue hui))', text): in each maximal
\* run of word characters and blanks, the run up to the end of its last event
\* word that has a character before it.
RECURSIVE FindAllEvents(_)
FindAllEvents(text) ==
    IF text = <<>> THEN <<>>
    ELSE IF Head(text) \in Punctuation THEN FindAllEvents(Tail(text))
    ELSE LET marks == {i \in 1..Len(text) : text[i] \in Punctuation}
             stop  == IF marks = {} THEN Len(text) + 1
                      ELSE CHOOSE i \in marks : \A j \in marks : i <= j
             run   == SubSeq(text, 1, stop - 1)
             ends  == {j \in 2..(Len(run) - 1) : SubSeq(run, j, j + 1) \in EventWords}
             after == FindAllEvents(SubSeq(text, stop, Len(text)))
         IN  IF ends = {} THEN after
             ELSE LET j == CHOOSE j \in ends : \A k \in ends : k <= j
                  IN  <<SubSeq(run, 1, j + 1)>> \o after

ContextLen == 100

\* _extract_important_facts: every match of a fact pattern in the input and
\* the response is stored under the key timestamp_match; a key already there
\* is overwritten.  (The date, e-mail address and phone number patterns need
\* characters the model's texts do not hold.)
_extract_important_facts(user_input, assistant_response, facts, now) ==
    LET text    == user_input \o <<" ">> \o assistant_response
        found   == FindAllClockTimes(text) \o FindAllEvents(text)
        keys    == {<<now, found[i]>> : i \in 1..Len(found)}
        context == SubSeq(user_input, 1, Min(ContextLen, Len(user_input)))
    IN  [k \in (DOMAIN facts) \cup keys |->
            IF k \in keys
            THEN [content |-> k[2], timestamp |-> now, context |-> context]
            ELSE facts[k]]

\* The comparison of an ascending sort.
KeyGE_Ascending(a, b) ==
    \/ a.importance < b.importance
    \/ a.importance = b.importance /\ a.timestamp <= b.timestamp

\* The sort key (importance, timestamp) of _cleanup_memories, compared.
KeyGE(a, b) ==
    \/ a.importance > b.importance
    \/ a.importance = b.importance /\ a.timestamp >= b.timestamp

\* list.sort(key=..., reverse=True) is stable: an element goes after the
\* elements already placed whose key is greater or equal.
RECURSIVE InsertByKey(_, _)
InsertByKey(sorted, m) ==
    IF sorted = <<>> THEN <<m>>
    ELSE IF KeyGE(Head(sorted), m) THEN <<Head(sorted)>> \o InsertByKey(Tail(sorted), m)
    ELSE <<m>> \o sorted

RECURSIVE SortByKeyDescending(_)
SortByKeyDescending(mems) ==
    IF mems = <<>> THEN <<>>
    ELSE InsertByKey(SortByKeyDescending(SubSeq(mems, 1, Len(mems) - 1)), mems[Len(mems)])

\* A cleanup that lowers the importance of what it keeps.
CleanupMemories_Decayed(mems, max) ==
    IF Len(mems) > max
    THEN LET sorted == SortByKeyDescending(mems)
         IN  [kept |-> [i \in 1..max |-> [sorted[i] EXCEPT !.importance = @ - 1]],
              evicted |-> SubSeq(sorted, max + 1, Len(sorted))]
    ELSE [kept |-> mems, evicted |-> <<>>]

\* _cleanup_memories: what is kept and what is dropped.
_cleanup_memories(mems, max) ==
    IF Len(mems) > max
    THEN LET sorted == SortByKeyDescending(mems)
         IN  [kept |-> SubSeq(sorted, 1, max), evicted |-> SubSeq(sorted, max + 1, Len(sorted))]
    ELSE [kept |-> mems, evicted |-> <<>>]

\* add_memory: the store after the call, and the entries the cleanup dropped.
add_memory(user_input, assistant_response, importance, now, max, mems, prefs, facts) ==
    LET memory == [timestamp |-> now, user_input |-> user_input,
                   assistant_response |-> assistant_response,
                   importance |-> importance,
                   keywords |-> _extract_keywords(user_input \o <<" ">> \o assistant_response),
                   category |-> _categorize_memory(user_input)]
        cleaned == _cleanup_memories(Append(mems, memory), max)
    IN  [memories |-> cleaned.kept,
         user_preferences |-> _extract_user_preferences(user_input, prefs),
         important_facts |->
             _extract_important_facts(user_input, assistant_response, facts, now),
         evicted |-> cleaned.evicted,
         added |-> memory]

\* A gate that lets every entry pass.
IsRelevant_Always(keyword_overlap) == keyword_overlap >= 0

\* keyword_overlap > 0: the gate an entry passes to be a candidate.
IsRelevant(keyword_overlap) == keyword_overlap > 0

SetOf(seq) == {seq[i] : i \in 1..Len(seq)}

\* relevance_score = overlap / |union| * 0.7 + importance * 0.3, with the
\* importance in tenths; scores are compared exactly, as fractions
\* (70 * overlap + 3 * importance * union) / (100 * union).
ScoreGE(a, b) ==
    (70 * a.overlap + 3 * a.memory.importance * a.union) * b.union
        >= (70 * b.overlap + 3 * b.memory.importance * b.union) * a.union

RECURSIVE InsertByScore(_, _)
InsertByScore(sorted, item) ==
    IF sorted = <<>> THEN <<item>>
    ELSE IF ScoreGE(Head(sorted), item)
         THEN <<Head(sorted)>> \o InsertByScore(Tail(sorted), item)
    ELSE <<item>> \o sorted

\* A sort that leaves the candidates in the order they are stored in.
SortByScore_StoredOrder(items) == items

RECURSIVE SortByScoreDescending(_)
SortByScoreDescending(items) ==
    IF items = <<>> THEN <<>>
    ELSE InsertByScore(SortByScoreDescending(SubSeq(items, 1, Len(items) - 1)),
                       items[Len(items)])

TicksPerMinute == 2
HeadLen == 50

\* strftime('%m-%d %H:%M') keeps the minute and drops what is finer.
FormatTimestamp(timestamp) == timestamp \div TicksPerMinute

\* One line of the result: the formatted timestamp and the first fifty
\* characters of the user input.
FormatMemory(memory) ==
    [stamp |-> FormatTimestamp(memory.timestamp),
     head  |-> SubSeq(memory.user_input, 1, Min(HeadLen, Len(memory.user_input)))]

\* get_relevant_memories, for a limit that is not negative.
get_relevant_memories(query, limit, mems) ==
    IF mems = <<>> THEN <<>>
    ELSE LET query_keywords == SetOf(_extract_keywords(query))
             Scored(memory) ==
                 [memory  |-> memory,
                  overlap |-> Cardinality(query_keywords \cap SetOf(memory.keywords)),
                  union   |-> Cardinality(query_keywords \cup SetOf(memory.keywords))]
             relevant_memories ==
                 SelectSeq([i \in 1..Len(mems) |-> Scored(mems[i])],
                           LAMBDA item : IsRelevant(item.overlap))
             sorted == SortByScoreDescending(relevant_memories)
         IN  [i \in 1..Min(limit, Len(sorted)) |-> FormatMemory(sorted[i].memory)]

\* ' '.join(words)
RECURSIVE JoinWithBlanks(_)
JoinWithBlanks(words) ==
    IF words = <<>> THEN <<>>
    ELSE IF Len(words) = 1 THEN Head(words)
    ELSE Head(words) \o <<" ">> \o JoinWithBlanks(Tail(words))

\* sorted(..., key=timestamp, reverse=True) is stable: an entry goes after
\* the entries already placed whose timestamp is greater or equal.
RECURSIVE InsertByTimestamp(_, _)
InsertByTimestamp(sorted, m) ==
    IF sorted = <<>> THEN <<m>>
    ELSE IF Head(sorted).timestamp >= m.timestamp
         THEN <<Head(sorted)>> \o InsertByTimestamp(Tail(sorted), m)
    ELSE <<m>> \o sorted

RECURSIVE SortByTimestampDescending(_)
SortByTimestampDescending(mems) ==
    IF mems = <<>> THEN <<>>
    ELSE InsertByTimestamp(SortByTimestampDescending(SubSeq(mems, 1, Len(mems) - 1)),
                           mems[Len(mems)])

\* get_recent_memories: the entries no older than the cutoff, newest first;
\* hours is the width of the window in clock ticks.
get_recent_memories(hours, now, mems) ==
    LET cutoff_time == now - hours
        recent_memories == SelectSeq(mems, LAMBDA memory : memory.timestamp >= cutoff_time)
    IN  SortByTimestampDescending(recent_memories)

\* search_memories: the entries whose input, response or joined keywords
\* hold the lower-cased keyword, newest first.
search_memories(keyword, mems) ==
    LET keyword_lower == Lower(keyword)
        results == SelectSeq(mems, LAMBDA memory :
                       \/ Contains(Lower(memory.user_input), keyword_lower)
                       \/ Contains(Lower(memory.assistant_response), keyword_lower)
                       \/ Contains(JoinWithBlanks(memory.keywords), keyword_lower))
    IN  SortByTimestampDescending(results)

\* json.dumps writes a tuple as an array, so json.loads gives a list back;
\* a str stays a str.
ValueFromJson(value) ==
    IF value.tag = "tuple" THEN PrefValue("list", value.parts) ELSE value

PreferencesFromJson(prefs) ==
    [kind \in DOMAIN prefs |->
        [i \in 1..Len(prefs[kind]) |-> ValueFromJson(prefs[kind][i])]]

StoreKeys == {"memories", "user_preferences", "important_facts"}

\* A JSON text, by what json.loads makes of it: "invalid" is no JSON,
\* "array" is JSON that is no object, "object" is an object holding the keys
\* in has.
Document(kind, has, mems, prefs, facts, stamp) ==
    [kind |-> kind, has |-> has, memories |-> mems, user_preferences |-> prefs,
     important_facts |-> facts, export_timestamp |-> stamp]

NoFacts == [k \in {} |-> <<>>]

NoDocument == Document("none", {}, <<>>, NoPreferences, NoFacts, 0)

Store(mems, prefs, facts) ==
    [memories |-> mems, user_preferences |-> prefs, important_facts |-> facts]

NoExport == [text |-> NoDocument, store |-> Store(<<>>, NoPreferences, NoFacts)]

\* export_memories: the text is modelled by the data json.loads reads from it.
export_memories(mems, prefs, facts, now) ==
    Document("object", StoreKeys, mems, PreferencesFromJson(prefs), facts, now)

NoException == "none"

\* What the body of import_memories raises: json.loads on a text that is no
\* JSON, data.get on a value that is no dict.
ImportException(doc) ==
    IF doc.kind = "invalid" THEN "JSONDecodeError"
    ELSE IF doc.kind # "object" THEN "AttributeError"
    ELSE NoException

\* A handler for json.JSONDecodeError alone.
ImportCatches_DecodeOnly(exc) == exc = "JSONDecodeError"

\* except Exception: every exception the body raises is caught.
ImportCatches(exc) == TRUE

\* import_memories emptying the list before it reads the text.
ImportMemories_EmptiedFirst(doc, mems, prefs, facts) ==
    LET exc == ImportException(doc) IN
    IF exc = NoException
    THEN [ok |-> TRUE, raised |-> FALSE,
          memories |-> IF "memories" \in doc.has THEN doc.memories ELSE <<>>,
          user_preferences |->
              IF "user_preferences" \in doc.has THEN doc.user_preferences
              ELSE NoPreferences,
          important_facts |->
              IF "important_facts" \in doc.has THEN doc.important_facts ELSE NoFacts]
    ELSE [ok |-> FALSE, raised |-> ~ImportCatches(exc),
          memories |-> <<>>, user_preferences |-> prefs, important_facts |-> facts]

\* import_memories: the returned value, whether an exception left the call,
\* and the three structures afterwards.
import_memories(doc, mems, prefs, facts) ==
    LET exc == ImportException(doc) IN
    IF exc = NoException
    THEN [ok |-> TRUE, raised |-> FALSE,
          memories |-> IF "memories" \in doc.has THEN doc.memories ELSE <<>>,
          user_preferences |->
              IF "user_preferences" \in doc.has THEN doc.user_preferences
              ELSE NoPreferences,
          important_facts |->
              IF "important_facts" \in doc.has THEN doc.important_facts ELSE NoFacts]
    ELSE [ok |-> FALSE, raised |-> ~ImportCatches(exc),
          memories |-> mems, user_preferences |-> prefs, important_facts |-> facts]

\* A store that is never taken to be empty.
IsEmptyStore_Never(mems) == FALSE

\* `if not self.memories:`
IsEmptyStore(mems) == mems = <<>>

\* total_importance after the loop of get_memory_statistics
RECURSIVE TotalImportance(_)
TotalImportance(mems) ==
    IF mems = <<>> THEN 0 ELSE Head(mems).importance + TotalImportance(Tail(mems))

\* The greatest common divisor of two naturals.
RECURSIVE Gcd(_, _)
Gcd(a, b) == IF b = 0 THEN a ELSE Gcd(b, a % b)

\* 0.0
ZeroQuotient == [num |-> 0, den |-> 1]

\* a / b of two naturals: the quotient as a fraction in lowest terms;
\* ZeroDivisionError when b is 0.
Divide(a, b) ==
    IF b = 0 THEN [raised |-> TRUE, value |-> ZeroQuotient]
    ELSE [raised |-> FALSE,
          value |-> [num |-> a \div Gcd(a, b), den |-> b \div Gcd(a, b)]]

\* dict(categories): for each category some entry has, the number of
\* entries that have it.
CategoryCounts(mems) ==
    [c \in {mems[i].category : i \in 1..Len(mems)} |->
        Cardinality({i \in 1..Len(mems) : mems[i].category = c})]

\* len(self.user_preferences): the kinds the dictionary holds
PreferencesCount(prefs) == Cardinality({kind \in DOMAIN prefs : prefs[kind] # <<>>})

\* What get_memory_statistics returns for an empty store: three keys; the
\* two counts are not part of it (has_counts).
NoStatistics ==
    [raised |-> FALSE, total_memories |-> 0, categories |-> CategoryCounts(<<>>),
     average_importance |-> ZeroQuotient, has_counts |-> FALSE,
     user_preferences_count |-> 0, important_facts_count |-> 0]

\* get_memory_statistics; raised says a ZeroDivisionError left the call.
get_memory_statistics(mems, prefs, facts) ==
    IF IsEmptyStore(mems) THEN NoStatistics
    ELSE LET average == Divide(TotalImportance(mems), Len(mems)) IN
         IF average.raised THEN [NoStatistics EXCEPT !.raised = TRUE]
         ELSE [raised |-> FALSE, total_memories |-> Len(mems),
               categories |-> CategoryCounts(mems),
               average_importance |-> average.value, has_counts |-> TRUE,
               user_preferences_count |-> PreferencesCount(prefs),
               important_facts_count |-> Cardinality(DOMAIN facts)]

\* clear_memory without its third statement: important_facts keeps its
\* entries.
ClearMemory_FactsKept ==
    [memories |-> <<>>, user_preferences |-> NoPreferences,
     important_facts |-> important_facts]

\* clear_memory: list.clear() and the two dict.clear() calls, which cannot fail.
clear_memory ==
    [memories |-> <<>>, user_preferences |-> NoPreferences, important_facts |-> NoFacts]

-----------------------------------------------------------------------------
(* Bounds and input sets.                                                  *)

MaxEvents == 2      \* adds allowed before the model stops adding
MaxClock  == 2      \* ticks of the clock
MaxLookups == 2     \* weather lookups counted before the model stops counting
MaxWords  == 3      \* words per text of a pure-function specification
MaxMemories == 2    \* the largest max_memories a store is built with
MaxMemOps == 3      \* add_memory calls before the model stops adding
MaxLimit  == 2      \* the largest limit of get_relevant_memories

\* Requests typed to the assistant.
RequestTexts ==
    { <<>>,
      <<" ">>,
      <<"ni", "hao">>,
      <<"tian", "qi">>,
      <<"tai", "bei", "tian", "qi">>,
      <<"W", "E", "A", "T", "H", "E", "R">>,
      \* "ming tian xia wu 2 dian an pai yu ke hu de hui yi", the add example
      \* of _provide_schedule_help
      <<"ming", "tian", "xia", "wu", "2", "dian", "an", "pai", "yu", "ke", "hu",
        "de", "hui4", "yi">>,
      <<"cha", "kan", "ri", "cheng">>,
      <<"shan", "chu", "ri", "cheng", "1">>,
      <<"xiu", "gai", "ri", "cheng">>,
      <<"ri", "cheng">>,
      <<"cha", "kan", "you", "jian", "1">>,
      <<"you", "jian">>,
      <<"hui2", "xin4">> }

ToolFaults  == {"ValueError"}

\* The exception a call of the tool may raise: the calendar and email tools
\* convert digits with int(), which raises for input beyond the interpreter's
\* limits; the weather tool catches every exception itself.
FaultsOf(tool_name) ==
    IF tool_name \in {"calendar", "email"} THEN {NoFault} \cup ToolFaults ELSE {NoFault}

OutcomesOf(tool_name) == IF tool_name = "weather" THEN WeatherOutcomes ELSE {"report"}

\* Importance in tenths: the default 0.5 of add_memory.
DefaultImportance == 5

\* An exchange handed to add_memory: what the user typed, what the assistant
\* answered, and the importance given.
Exchange(user_input, importance) ==
    [user_input |-> user_input, assistant_response |-> <<"o", "k">>,
     importance |-> importance]

\* The exchanges a queried store is given: "ming tian kai hui4" at the
\* default importance and at a higher one, "10:30 hui4 yi" at the higher one.
MemoryExchanges ==
    { Exchange(<<"ming", "tian", "kai", "hui4">>, DefaultImportance),
      Exchange(<<"ming", "tian", "kai", "hui4">>, 8),
      Exchange(<<"1", "0", ":", "3", "0", " ", "hui4", "yi">>, 8) }

\* The exchanges an exported store is given, as app.py stores them: "wo de
\* ming zi shi xiao ming", "10:30 hui4 yi".
StatementExchanges ==
    { Exchange(<<"wo", "de", "ming", "zi", "shi", "xiao", "ming">>, DefaultImportance),
      Exchange(<<"1", "0", ":", "3", "0", " ", "hui4", "yi">>, DefaultImportance) }

\* The exchanges a store that is read in every way is given: "ming tian kai
\* hui4" at the default importance, "10:30 hui4 yi" at a higher one.
RecallExchanges ==
    { Exchange(<<"ming", "tian", "kai", "hui4">>, DefaultImportance),
      Exchange(<<"1", "0", ":", "3", "0", " ", "hui4", "yi">>, 8) }

\* Widths of the window of get_recent_memories, in clock ticks: this tick
\* alone, this tick and the one before.
RecallWindows == {0, 1}

\* Words looked for in such a store: one every entry holds, one some hold.
RecallWords == { <<"O", "k">>, <<"hui4", "yi">> }

\* Queries: a word every entry holds, a word some hold, a stop word.
MemoryQueries ==
    { <<"o", "k">>, <<"ming", "tian", "kai", "hui4">>, <<"de">> }

\* The text a store of a larger capacity exported when it was full: one
\* entry more than this model's largest store holds, each the exchange "ni
\* hao" stored at tick 0.
ExportOfLargerStore ==
    LET entry == add_memory(<<"ni", "hao">>, <<"o", "k">>, DefaultImportance, 0,
                            MaxMemories + 1, <<>>, NoPreferences, NoFacts).added
    IN  export_memories([i \in 1..(MaxMemories + 1) |-> entry], NoPreferences, NoFacts, 0)

\* Texts handed to import_memories besides the one exported last: no JSON,
\* "[]", "{}", and the export of a larger store.
ForeignDocuments ==
    { Document("invalid", {}, <<>>, NoPreferences, NoFacts, 0),
      Document("array", {}, <<>>, NoPreferences, NoFacts, 0),
      Document("object", {}, <<>>, NoPreferences, NoFacts, 0),
      ExportOfLargerStore }

-----------------------------------------------------------------------------
(* Initial state: the objects as constructed.                              *)

NoLast ==
    [input |-> <<>>, intent |-> BlankIntent, use_tool_called |-> FALSE,
     ran |-> "none", result |-> NoResult,
     response |-> [kind |-> "none", prompt |-> NoPrompt], fault |-> NoFault,
     stubbed |-> FALSE]

NoCalRequest ==
    [input |-> <<>>, entities |-> NoEntities,
     reply |-> CalReply("none", NoId, NoTitle, <<>>)]

InitAssistant ==
    /\ weather_api_key \in BOOLEAN
    /\ weather_lookups = 0
    /\ last = NoLast

InitCalendar ==
    /\ events = <<>>
    /\ event_id_counter = 1
    /\ assigned_ids = <<>>
    /\ cal_reply = NoCalRequest

NoMailRequest == [input |-> <<>>, reply |-> NoMailReply, before |-> <<>>]

InitEmail ==
    /\ mock_emails = SeedMailbox
    /\ draft_emails = <<>>
    /\ mail_reply = NoMailRequest

NoMemReply ==
    [op |-> "none", ok |-> TRUE, raised |-> FALSE, query |-> <<>>, limit |-> 0,
     results |-> <<>>, evicted |-> <<>>, doc |-> NoDocument,
     before |-> Store(<<>>, NoPreferences, NoFacts), stats |-> NoStatistics]

\* ConversationMemory(max_memories=n).__init__
InitMemory(n) ==
    /\ max_memories = n
    /\ memories = <<>>
    /\ user_preferences = NoPreferences
    /\ important_facts = NoFacts
    /\ clock = 0
    /\ mem_reply = NoMemReply
    /\ exported = NoExport
    /\ mem_ops = 0

\* What a chat turn leaves behind: the input, whether it was handled, the
\* memories retrieved for it, the response and its text.
NoTurn ==
    [input |-> <<>>, handled |-> FALSE, warned |-> FALSE, failed |-> FALSE,
     relevant_memories |-> <<>>, response |-> "none", text |-> <<>>]

\* initialize_session_state: no messages, no assistant; inputs counts the
\* chat inputs received.
InitSession ==
    session_state = [assistant |-> FALSE, messages |-> <<>>, inputs |-> 0,
                     turn |-> NoTurn]

Init ==
    /\ InitAssistant /\ InitCalendar /\ InitEmail /\ InitMemory(MaxMemories)
    /\ probe = <<>>
    /\ InitSession

-----------------------------------------------------------------------------
(* Actions of the assistant.                                               *)

ToolState ==
    [api_key |-> weather_api_key, lookups |-> weather_lookups, events |-> events,
     counter |-> event_id_counter, emails |-> mock_emails,
     drafts |-> draft_emails, now |-> clock]

\* The ids given out by a step that appended an event.
IdsAfter(old_events, new_events, ids) ==
    IF Len(new_events) > Len(old_events)
    THEN Append(ids, new_events[Len(new_events)].id)
    ELSE ids

Apply(r, user_input, fault, stubbed) ==
    /\ r.st.counter <= MaxEvents + 1
    /\ r.st.lookups <= MaxLookups
    /\ weather_lookups' = r.st.lookups
    /\ events' = r.st.events
    /\ event_id_counter' = r.st.counter
    /\ assigned_ids' = IdsAfter(events, r.st.events, assigned_ids)
    /\ mock_emails' = r.st.emails
    /\ draft_emails' = r.st.drafts
    /\ last' = [input |-> user_input, intent |-> r.intent,
                use_tool_called |-> r.use_tool_called, ran |-> r.ran,
                result |-> r.result, response |-> r.response,
                fault |-> IF r.ran # "none" THEN fault ELSE NoFault,
                stubbed |-> stubbed]
    /\ UNCHANGED << weather_api_key, cal_reply, mail_reply, memory_vars, probe, session_state >>

\* One call of process_request.
ProcessRequest ==
    \E user_input \in RequestTexts, gen \in {"text", "error"} :
        LET tool == _detect_intent(user_input).type IN
        \E fault \in FaultsOf(tool), wx \in OutcomesOf(tool) :
            Apply(process_request(user_input, 0, ToolState, fault, wx, gen),
                  user_input, fault, FALSE)

Next == ProcessRequest

Spec == Init /\ [][Next]_vars

\* The values an Intent can take (type, confidence in tenths), and a tool
\* name that is no key of self.tools.
StubIntents ==
    { [type |-> t, confidence |-> c, city |-> NoCity, date |-> "none",
       time |-> NoTime] :
        t \in {"general", "weather", "calendar", "email", "translate"},
        c \in {0, 5, 6} }

\* The requests the stubbed classifier is tried with.
StubTexts ==
    { <<"ming", "tian", "xia", "wu", "2", "dian", "an", "pai", "yu", "ke", "hu",
        "de", "hui4", "yi">>,
      <<"shan", "chu", "ri", "cheng", "1">>,
      <<"cha", "kan", "you", "jian", "1">>,
      <<"tai", "bei", "tian", "qi">> }

\* process_request with _detect_intent replaced by a stub that returns a
\* given Intent: lines 271-289 on any Intent value.
RespondToStubbedIntent ==
    \E intent \in StubIntents, user_input \in StubTexts, gen \in {"text", "error"} :
        \E fault \in FaultsOf(intent.type), wx \in OutcomesOf(intent.type) :
            Apply(RespondToIntent(intent, user_input, 0, ToolState, fault, wx, gen),
                  user_input, fault, TRUE)

NextDispatch == RespondToStubbedIntent

SpecDispatch == Init /\ [][NextDispatch]_vars

-----------------------------------------------------------------------------
(* The classifier as a pure function of the text.                          *)

IntentVocab ==
    { <<"tian", "qi">>, <<"tian">>, <<"qi">>, <<"hui4", "yi">>, <<"an", "pai">>,
      <<"you", "jian">>, <<"W", "E", "A", "T", "H", "E", "R">>,
      <<"M", "a", "i", "l">>, <<"tai", "bei">>, <<"x">> }

IntentTexts == TextsOf(IntentVocab, MaxWords)

InitIntent ==
    /\ InitAssistant /\ InitCalendar /\ InitEmail /\ InitMemory(MaxMemories)
    /\ probe \in {[text |-> t, done |-> FALSE, intent |-> BlankIntent] : t \in IntentTexts}
    /\ InitSession

Classify ==
    /\ ~probe.done
    /\ probe' = [probe EXCEPT !.done = TRUE, !.intent = _detect_intent(probe.text)]
    /\ UNCHANGED << assistant_vars, calendar_vars, email_vars, memory_vars, session_state >>

NextIntent == Classify

SpecIntent == InitIntent /\ [][NextIntent]_vars

-----------------------------------------------------------------------------
(* Actions of the calendar tool, called directly.                          *)

\* Requests: two that add ("ming tian xia wu 2 dian an pai yu ke hu de hui4
\* yi", "xin1 zeng hui4 yi"), an add that names nothing ("ming tian an pai"),
\* the view example of _provide_schedule_help ("jin tian you3 shen me an
\* pai?"), three that view (everything, "ming tian", "ben zhou"), deletes of ids 1, 2, 0 and of no id, two updates
\* ("xiu gai ri cheng", "geng gai hou tian shi3 jian 1"), and one with no
\* calendar word.
CalendarTexts ==
    { <<"ming", "tian", "xia", "wu", "2", "dian", "an", "pai", "yu", "ke", "hu",
        "de", "hui4", "yi">>,
      <<"xin1", "zeng", "hui4", "yi">>,
      <<"ming", "tian", "an", "pai">>,
      <<"jin", "tian", "you3", "shen2", "me", "an", "pai", "fwqmark">>,
      <<"cha", "kan", "ri", "cheng">>,
      <<"cha", "kan", "ming", "tian", "ri", "cheng">>,
      <<"cha", "kan", "ben", "zhou", "ri", "cheng">>,
      <<"shan", "chu", "shi3", "jian", "1">>,
      <<"shan", "chu", "shi3", "jian", "2">>,
      <<"shan", "chu", "shi3", "jian", "0">>,
      <<"shan", "chu", "shi3", "jian">>,
      <<"xiu", "gai", "ri", "cheng">>,
      <<"geng", "gai", "hou", "tian", "shi3", "jian", "1">>,
      <<"ni", "hao">> }

\* _extract_time_info: the entities the classifier hands on.
_extract_time_info(text) ==
    Entities(ExtractDateToken(text), ExtractTimeEntity(text), <<>>)

\* The entities of a caller that names a week: {'range': 'ben zhou'}, 'zhe
\* zhou', 'xia zhou'.
WeekEntities ==
    { Entities("none", NoTime, week) :
        week \in { <<"ben", "zhou">>, <<"zhe", "zhou">>, <<"xia", "zhou">> } }

\* One call of manage_schedule, with the entities the classifier would have
\* extracted, with none, or with an entry that names a week.
ManageSchedule ==
    \E user_input \in CalendarTexts :
        \E entities \in {NoEntities, _extract_time_info(user_input)} \cup WeekEntities :
            \E r \in { manage_schedule(user_input, entities, events,
                                        event_id_counter, clock) } :
                /\ r.counter <= MaxEvents + 1
                /\ events' = r.events
                /\ event_id_counter' = r.counter
                /\ assigned_ids' = IdsAfter(events, r.events, assigned_ids)
                /\ cal_reply' = [input |-> user_input, entities |-> entities,
                                 reply |-> r.reply]
                /\ UNCHANGED << assistant_vars, email_vars, memory_vars, probe, session_state >>

NextCalendar == ManageSchedule

SpecCalendar == Init /\ [][NextCalendar]_vars

-----------------------------------------------------------------------------
(* Actions of the email tool.                                              *)

\* Requests to the email tool: reads by id (ids 1..3 exist, 9 and 0 do not),
\* the filtered lists, the reply command as the help text and the message
\* view print it (the three with "you jian"), replies by bare id, compose
\* requests with and without a recipient or a subject, searches, summaries,
\* templates and a greeting.
EmailTexts ==
    { <<"cha", "kan", "you", "jian", "1">>,
      <<"cha", "kan", "you", "jian", "2">>,
      <<"cha", "kan", "you", "jian", "3">>,
      <<"cha", "kan", "you", "jian", "9">>,
      <<"cha", "kan", "you", "jian", "0">>,
      <<"cha", "kan", "wei", "du", "you", "jian">>,
      <<"cha", "kan", "zhong", "yao", "you", "jian">>,
      <<"cha", "kan", "you", "jian">>,
      <<"hui2", "fu", "you", "jian", "1">>,
      <<"hui2", "fu", "you", "jian", "2">>,
      <<"hui2", "fu", "you", "jian", "3">>,
      <<"hui2", "fu", " ", "1">>,
      <<"hui2", "fu", " ", "2">>,
      <<"hui2", "fu", " ", "3">>,
      <<"hui2", "fu", " ", "9">>,
      <<"hui2", "fu", " ", "0">>,
      <<"hui2", "fu">>,
      <<"hui2", "xin4">>,
      <<"r", "e", "p", "l", "y", " ", "2">>,
      <<"xie", "xin4">>,
      <<"ji", "xin4", "gei", "ke", "hu", "xun2", "wen4", "xu", "qiu">>,
      <<"xie", "xin4", "gei", "a", "@", "b", ".", "c", "o">>,
      <<"xie", "yi1", "feng1", "guan", "yu2", "hui4", "yi", "de", "xin4">>,
      <<"sou", "xun", "zhuan1", "an4">>,
      <<"sou", "xun">>,
      <<"zhao", " ", "j", "o", "h", "n">>,
      <<"sou", "xun", "tian", "qi">>,
      <<"zhai", "yao">>,
      <<"zong", "jie">>,
      <<"mo", "ban">>,
      <<"zhuan1", "an4", "mo", "ban">>,
      <<"zhui", "zong1", "fan", "ben">>,
      <<"ni", "hao">> }

\* One call of process_email.
ProcessEmail ==
    \E user_input \in EmailTexts :
        LET r == process_email(user_input, mock_emails, draft_emails)
        IN  /\ mock_emails' = r.emails
            /\ draft_emails' = r.drafts
            /\ mail_reply' = [input |-> user_input, reply |-> r.reply,
                              before |-> mock_emails]
            /\ UNCHANGED << assistant_vars, calendar_vars, memory_vars, probe, session_state >>

NextEmail == ProcessEmail

SpecEmail == Init /\ [][NextEmail]_vars

-----------------------------------------------------------------------------
(* Actions of the conversation memory.                                     *)

other_vars == << assistant_vars, calendar_vars, email_vars, probe, session_state >>

\* One call of add_memory; the clock may have moved on since the last call.
AddMemoryOf(exchanges) ==
    \E x \in exchanges, dt \in {0, 1} :
        /\ mem_ops < MaxMemOps
        /\ clock + dt <= MaxClock
        /\ \E r \in { add_memory(x.user_input, x.assistant_response, x.importance,
                                   clock + dt, max_memories, memories,
                                   user_preferences, important_facts) } :
               /\ memories' = r.memories
               /\ user_preferences' = r.user_preferences
               /\ important_facts' = r.important_facts
               /\ mem_reply' = [NoMemReply EXCEPT !.op = "add", !.evicted = r.evicted]
        /\ clock' = clock + dt
        /\ mem_ops' = mem_ops + 1
        /\ UNCHANGED << max_memories, exported, other_vars >>

AddMemory == AddMemoryOf(MemoryExchanges)

\* The call app.py makes: add_memory(user_input, response).
AddStatement == AddMemoryOf(StatementExchanges)

\* One call of get_relevant_memories.
GetRelevantOf(queries, limits) ==
    \E query \in queries, limit \in limits :
        /\ mem_reply' = [NoMemReply EXCEPT
                            !.op = "relevant", !.query = query, !.limit = limit,
                            !.results = get_relevant_memories(query, limit, memories)]
        /\ UNCHANGED << max_memories, memories, user_preferences, important_facts,
                        clock, exported, mem_ops, other_vars >>

GetRelevantMemories == GetRelevantOf(MemoryQueries, 0..MaxLimit)

\* One call of get_memory_statistics.
GetMemoryStatistics ==
    /\ mem_reply' = [NoMemReply EXCEPT
                        !.op = "stats",
                        !.stats = get_memory_statistics(memories, user_preferences,
                                                        important_facts)]
    /\ UNCHANGED << max_memories, memories, user_preferences, important_facts,
                    clock, exported, mem_ops, other_vars >>

\* One call of clear_memory.
ClearMemory ==
    /\ memories' = clear_memory.memories
    /\ user_preferences' = clear_memory.user_preferences
    /\ important_facts' = clear_memory.important_facts
    /\ mem_reply' = [NoMemReply EXCEPT
                        !.op = "clear",
                        !.before = Store(memories, user_preferences, important_facts)]
    /\ UNCHANGED << max_memories, clock, exported, mem_ops, other_vars >>

\* One call of export_memories; the caller keeps the text.
ExportMemories ==
    /\ exported' =
           [text  |-> export_memories(memories, user_preferences, important_facts, clock),
            store |-> Store(memories, user_preferences, important_facts)]
    /\ mem_reply' = [NoMemReply EXCEPT !.op = "export"]
    /\ UNCHANGED << max_memories, memories, user_preferences, important_facts,
                    clock, mem_ops, other_vars >>

\* One call of import_memories, with the text kept from the last export or
\* with a text from elsewhere.
ImportMemories ==
    \E doc \in ForeignDocuments \cup {exported.text} :
        /\ doc.kind # "none"
        /\ LET r == import_memories(doc, memories, user_preferences, important_facts)
           IN  /\ memories' = r.memories
               /\ user_preferences' = r.user_preferences
               /\ important_facts' = r.important_facts
               /\ mem_reply' = [NoMemReply EXCEPT !.op = "import", !.ok = r.ok,
                                                   !.raised = r.raised, !.doc = doc]
        /\ UNCHANGED << max_memories, clock, exported, mem_ops, other_vars >>

InitStore ==
    /\ InitAssistant /\ InitCalendar /\ InitEmail
    /\ \E n \in 0..MaxMemories : InitMemory(n)
    /\ probe = <<>>
    /\ InitSession

NextMemory == AddMemory \/ GetRelevantMemories \/ GetMemoryStatistics \/ ClearMemory

\* A store that is written to and queried.
SpecMemory == InitStore /\ [][NextMemory]_vars

\* One call of get_recent_memories.
GetRecentMemories ==
    \E hours \in RecallWindows :
        /\ mem_reply' = [NoMemReply EXCEPT
                            !.op = "recent", !.limit = hours,
                            !.results = get_recent_memories(hours, clock, memories)]
        /\ UNCHANGED << max_memories, memories, user_preferences, important_facts,
                        clock, exported, mem_ops, other_vars >>

\* One call of search_memories.
SearchMemories ==
    \E keyword \in RecallWords :
        /\ mem_reply' = [NoMemReply EXCEPT
                            !.op = "search", !.query = keyword,
                            !.results = search_memories(keyword, memories)]
        /\ UNCHANGED << max_memories, memories, user_preferences, important_facts,
                        clock, exported, mem_ops, other_vars >>

\* add_memory and get_relevant_memories as the chat loop calls them, with
\* the importance the caller chose.
AddRecalled == AddMemoryOf(RecallExchanges)

GetRelevantRecalled == GetRelevantOf(RecallWords, {MaxLimit})

NextRecall ==
    \/ AddRecalled \/ GetRelevantRecalled \/ GetRecentMemories \/ SearchMemories
    \/ GetMemoryStatistics \/ ExportMemories

\* A store that is written to, read in every way and exported, never cleared.
SpecRecall == InitStore /\ [][NextRecall]_vars

NextPersist == AddStatement \/ ClearMemory \/ ExportMemories \/ ImportMemories

\* A store that is written to, exported and imported.
SpecPersist == InitStore /\ [][NextPersist]_vars

-----------------------------------------------------------------------------
(* The chat loop of the Streamlit page (app.py).                           *)

DefaultLimit == 5

\* The text of a response: what the model wrote ("ok"), the message of a
\* failed generation ("sheng cheng hui ying shi fa sheng cuo wu: err"), the
\* request for input ("qing gao su wo nin xu yao shen me bang zhu").
ResponseText(response) ==
    CASE response.kind = "generated" -> <<"o", "k">>
      [] response.kind = "generation_error" ->
             <<"sheng", "cheng2", "hui2", "ying", "shi2", "fa", "sheng", "cuo", "wu",
               ":", " ", "e", "r", "r">>
      [] response.kind = "ask_for_input" ->
             <<"qing3", "gao", "su", "wo", "nin", "xu", "yao", "shen2", "me", "bang",
               "zhu", " ", "smile">>
      [] OTHER -> <<>>

Message(role, content) == [role |-> role, content |-> content]

\* The end of the try block: the response is shown and the exchange stored;
\* an exception out of process_request skips both.
StoreExchange(user_input, asked, relevant_memories, r, max, mems, prefs, facts, now) ==
    IF r.response.kind = "uncaught_exception"
    THEN [turn |-> [NoTurn EXCEPT !.input = user_input, !.handled = TRUE,
                                  !.failed = TRUE,
                                  !.relevant_memories = relevant_memories],
          messages |-> asked, st |-> r.st, stored |-> FALSE,
          memories |-> mems, user_preferences |-> prefs, important_facts |-> facts,
          evicted |-> <<>>]
    ELSE LET a == add_memory(user_input, ResponseText(r.response), DefaultImportance,
                             now, max, mems, prefs, facts)
         IN  [turn |-> [NoTurn EXCEPT !.input = user_input, !.handled = TRUE,
                                      !.relevant_memories = relevant_memories,
                                      !.response = r.response.kind,
                                      !.text = ResponseText(r.response)],
              messages |-> Append(asked, Message("assistant", ResponseText(r.response))),
              st |-> r.st, stored |-> TRUE,
              memories |-> a.memories, user_preferences |-> a.user_preferences,
              important_facts |-> a.important_facts, evicted |-> a.evicted]

\* A chat input that stores the exchange first and retrieves afterwards.
HandleInput_StoredFirst(user_input, messages, max, mems, prefs, facts, st, fault, wx, gen) ==
    LET a == add_memory(user_input, <<"o", "k">>, DefaultImportance, st.now, max,
                        mems, prefs, facts)
    IN  StoreExchange(user_input, Append(messages, Message("user", user_input)),
                      get_relevant_memories(user_input, DefaultLimit, a.memories),
                      process_request(user_input, 0, st, fault, wx, gen),
                      max, mems, prefs, facts, st.now)

\* The try block of the chat input: the memories are retrieved from the
\* store as it is, the response is produced with them, and the exchange is
\* stored last.
HandleInput(user_input, messages, max, mems, prefs, facts, st, fault, wx, gen) ==
    StoreExchange(user_input, Append(messages, Message("user", user_input)),
                  get_relevant_memories(user_input, DefaultLimit, mems),
                  process_request(user_input,
                                  get_relevant_memories(user_input, DefaultLimit, mems),
                                  st, fault, wx, gen),
                  max, mems, prefs, facts, st.now)

\* The input branch of display_chat_interface: handled when there is an
\* input and an assistant, answered with a warning when there is an input
\* and no assistant.
display_chat_interface(user_input, assistant, messages, max, mems, prefs, facts, st, fault, wx, gen) ==
    IF user_input # <<>> /\ assistant
    THEN HandleInput(user_input, messages, max, mems, prefs, facts, st, fault, wx, gen)
    ELSE [turn |-> [NoTurn EXCEPT !.input = user_input,
                                  !.warned = (user_input # <<>>)],
          messages |-> messages, st |-> st, stored |-> FALSE,
          memories |-> mems, user_preferences |-> prefs, important_facts |-> facts,
          evicted |-> <<>>]

\* What is typed into the chat: a blank, a greeting ("ni hao"), a request to
\* see the calendar ("cha kan ri cheng"), a sentence about a meeting ("ming
\* tian kai hui4").
ChatTexts ==
    { <<" ">>,
      <<"ni", "hao">>,
      <<"cha", "kan", "ri", "cheng">>,
      <<"ming", "tian", "kai", "hui4">> }

\* One run of the page with a chat input.
ChatInput ==
    \E user_input \in ChatTexts, gen \in {"text", "error"}, dt \in {0, 1} :
        LET tool == _detect_intent(user_input).type IN
        \E fault \in FaultsOf(tool), wx \in OutcomesOf(tool) :
            /\ session_state.inputs < MaxMemOps
            /\ clock + dt <= MaxClock
            /\ \E r \in { display_chat_interface(
                            user_input, session_state.assistant, session_state.messages,
                            max_memories, memories, user_preferences, important_facts,
                            [ToolState EXCEPT !.now = clock + dt], fault, wx, gen) } :
                   /\ r.st.counter <= MaxEvents + 1
                   /\ r.st.lookups <= MaxLookups
                   /\ weather_lookups' = r.st.lookups
                   /\ events' = r.st.events
                   /\ event_id_counter' = r.st.counter
                   /\ assigned_ids' = IdsAfter(events, r.st.events, assigned_ids)
                   /\ mock_emails' = r.st.emails
                   /\ draft_emails' = r.st.drafts
                   /\ memories' = r.memories
                   /\ user_preferences' = r.user_preferences
                   /\ important_facts' = r.important_facts
                   /\ mem_ops' = IF r.stored THEN mem_ops + 1 ELSE mem_ops
                   /\ mem_reply' = IF r.stored
                                    THEN [NoMemReply EXCEPT !.op = "add",
                                                            !.evicted = r.evicted]
                                    ELSE mem_reply
                   /\ session_state' = [session_state EXCEPT
                                           !.messages = r.messages,
                                           !.inputs = @ + 1,
                                           !.turn = r.turn]
            /\ clock' = clock + dt
            /\ UNCHANGED << weather_api_key, last, cal_reply, mail_reply, max_memories,
                            exported, probe >>

\* The button that initialises the assistant: with a Gemini key a new
\* PersonalAssistant, and with it new tools, takes the place of the old one.
InitializeAssistant ==
    \E gemini_key \in BOOLEAN, weather_key \in BOOLEAN :
        /\ gemini_key
        /\ session_state' = [session_state EXCEPT !.assistant = TRUE]
        /\ weather_api_key' = weather_key
        /\ events' = <<>>
        /\ event_id_counter' = 1
        /\ assigned_ids' = <<>>
        /\ mock_emails' = SeedMailbox
        /\ draft_emails' = <<>>
        /\ UNCHANGED << weather_lookups, last, cal_reply, mail_reply, memory_vars, probe >>

\* The button that clears the conversation.
ClearRecords ==
    /\ session_state' = [session_state EXCEPT !.messages = <<>>]
    /\ memories' = clear_memory.memories
    /\ user_preferences' = clear_memory.user_preferences
    /\ important_facts' = clear_memory.important_facts
    /\ mem_reply' = [NoMemReply EXCEPT
                        !.op = "clear",
                        !.before = Store(memories, user_preferences, important_facts)]
    /\ UNCHANGED << assistant_vars, calendar_vars, email_vars, max_memories, clock,
                    exported, mem_ops, probe >>

NextChat == ChatInput \/ InitializeAssistant \/ ClearRecords

\* The page: inputs, the initialise button and the clear button, in any order.
SpecChat == Init /\ [][NextChat]_vars

-----------------------------------------------------------------------------
(* Claims.                                                                 *)

HasWeatherWord(text)  == \E kw \in weather_keywords : Contains(Lower(text), kw)
HasCalendarWord(text) == \E kw \in calendar_keywords : Contains(Lower(text), kw)
HasEmailWord(text)    == \E kw \in email_keywords : Contains(Lower(text), kw)

ToolStateVars == << events, event_id_counter, mock_emails, draft_emails, weather_lookups >>

\* C2: process_request calls _use_tool only when the intent type is not
\* general and the confidence is strictly greater than 0.5; a request whose
\* intent has confidence exactly 0.5 invokes no tool and changes no tool
\* state (events, id counter, mailbox).
C2_DispatchThreshold ==
    [][ /\ last'.use_tool_called =>
              last'.intent.type # "general" /\ last'.intent.confidence > 5
        /\ last'.intent.confidence = 5 =>
              /\ ~last'.use_tool_called
              /\ last'.ran = "none"
              /\ UNCHANGED ToolStateVars ]_vars

\* A calendar intent of confidence exactly 0.5 was answered without a tool.
C2_Witness ==
    /\ last.intent.type = "calendar" /\ last.intent.confidence = 5
    /\ ~last.use_tool_called
    /\ last.response.kind = "generated"
    /\ last.response.prompt.context.tool_result = NoResult

\* C3: when the tool called by _use_tool raises an exception, _use_tool
\* returns an error string carrying the tool name and the exception text, the
\* exception does not leave process_request, and that string is in the context
\* handed to _generate_response, whose result ends the turn.
C3_ToolFailureContained ==
    last.fault # NoFault =>
        /\ last.result.kind = "tool_error"
        /\ last.result.tool = last.intent.type
        /\ last.result.tool = last.ran
        /\ last.result.exc = last.fault
        /\ last.response.kind \in {"generated", "generation_error"}
        /\ last.response.prompt.context.tool_result = last.result

\* The calendar tool raised and the turn ended with a generated response.
C3_Witness ==
    /\ last.fault = "ValueError"
    /\ last.ran = "calendar"
    /\ last.result.kind = "tool_error"
    /\ last.response.kind = "generated"

SortKeyAtLeast(a, b) ==
    a.importance > b.importance
        \/ (a.importance = b.importance /\ a.timestamp >= b.timestamp)

\* C5: for a store with max_memories = N, an add_memory on a store holding N
\* entries leaves exactly N entries; the entries an add_memory drops and the
\* ones it keeps are together the old entries and the new one, and every
\* kept entry has a sort key (importance, timestamp) greater than or equal to
\* that of every dropped entry.
C5_EvictionKeepsBest ==
    [][ mem_ops' = mem_ops + 1 =>
          LET dropped == mem_reply'.evicted IN
          /\ Len(memories) = max_memories => Len(memories') = max_memories
          /\ Len(memories') + Len(dropped) = Len(memories) + 1
          /\ \A i \in 1..Len(memories'), j \in 1..Len(dropped) :
                SortKeyAtLeast(memories'[i], dropped[j]) ]_vars

\* A full store of two after an add that dropped an entry which is newer
\* but less important than one that stays.
C5_Witness ==
    /\ max_memories = 2
    /\ Len(memories) = 2
    /\ mem_reply.op = "add"
    /\ Len(mem_reply.evicted) = 1
    /\ \E i \in 1..2 :
          /\ memories[i].importance > mem_reply.evicted[1].importance
          /\ memories[i].timestamp < mem_reply.evicted[1].timestamp

C7_RoundTrip ==
    (mem_reply.op = "import" /\ mem_reply.doc = exported.text) =>
        /\ memories = exported.store.memories
        /\ user_preferences = exported.store.user_preferences
        /\ important_facts = exported.store.important_facts

\* C8: import_memories never raises; it returns True for a JSON object,
\* with the three structures replaced by those of the object (the defaults
\* for the keys it lacks), and False for a text that is no JSON or whose
\* JSON is no object.
C8_ImportNeverRaises ==
    mem_reply.op = "import" =>
        LET doc == mem_reply.doc IN
        /\ ~mem_reply.raised
        /\ doc.kind = "object" =>
              /\ mem_reply.ok
              /\ memories =
                   IF "memories" \in doc.has THEN doc.memories ELSE <<>>
              /\ user_preferences =
                   IF "user_preferences" \in doc.has THEN doc.user_preferences
                   ELSE NoPreferences
              /\ important_facts =
                   IF "important_facts" \in doc.has THEN doc.important_facts
                   ELSE NoFacts
        /\ doc.kind # "object" => ~mem_reply.ok

\* An import of "[]" into a store that holds an entry: False, nothing raised.
C8_Witness ==
    /\ mem_reply.op = "import"
    /\ mem_reply.doc.kind = "array"
    /\ ~mem_reply.ok
    /\ ~mem_reply.raised
    /\ memories # <<>>

\* C9: the ids given to events start at 1 and strictly increase, the counter
\* is above every id given so far, and the stored events carry distinct ids
\* that were given; so no id is given twice, deleted or not.
C9_IdsNeverReused ==
    /\ assigned_ids # <<>> => assigned_ids[1] = 1
    /\ \A i, j \in 1..Len(assigned_ids) : i < j => assigned_ids[i] < assigned_ids[j]
    /\ \A i \in 1..Len(assigned_ids) : assigned_ids[i] < event_id_counter
    /\ \A i \in 1..Len(events) : events[i].id \in SetOf(assigned_ids)
    /\ \A i, j \in 1..Len(events) : i # j => events[i].id # events[j].id

\* An add after event 1 was deleted: the new event is the only one stored
\* and has id 2.
C9_Witness ==
    /\ cal_reply.reply.kind = "added"
    /\ cal_reply.reply.id = 2
    /\ assigned_ids = <<1, 2>>
    /\ Len(events) = 1
    /\ events[1].id = 2

\* C10: a delete request whose text holds an integer that is the id of no
\* stored event is answered with the "not found" message and leaves the
\* events and the id counter as they were.
C10_DeleteUnknownId ==
    [][ LET user_input == cal_reply'.input
            event_id   == _extract_event_id(user_input)
        IN  (/\ cal_reply' # cal_reply
             /\ _detect_schedule_intent(user_input) = "delete"
             /\ event_id # NoId
             /\ \A i \in 1..Len(events) : events[i].id # event_id) =>
                /\ cal_reply'.reply.kind = "not_found"
                /\ events' = events
                /\ event_id_counter' = event_id_counter ]_vars

\* The events without the one at position i.
WithoutEvent(evs, i) == SubSeq(evs, 1, i - 1) \o SubSeq(evs, i + 1, Len(evs))

\* C11: a delete request takes the first integer of the text as the event
\* id; an integer (of any value, 0 included) that is the id of no event is
\* answered with the id-not-found message naming it, a text without an
\* integer with the please-specify-an-id message, and an integer that is the
\* id of an event removes exactly that event, the others staying in order.
C11_DeleteByFirstInteger ==
    [][ LET user_input == cal_reply'.input
            event_id   == _extract_event_id(user_input)
            hits       == {i \in 1..Len(events) : events[i].id = event_id}
        IN  (/\ cal_reply' # cal_reply
             /\ _detect_schedule_intent(user_input) = "delete") =>
                IF event_id = NoId
                THEN /\ cal_reply'.reply.kind = "need_id"
                     /\ events' = events
                ELSE IF hits = {}
                THEN /\ cal_reply'.reply.kind = "not_found"
                     /\ cal_reply'.reply.id = event_id
                     /\ events' = events
                ELSE /\ cal_reply'.reply.kind = "deleted"
                     /\ \E i \in hits : events' = WithoutEvent(events, i)
                     /\ Cardinality(hits) = 1 ]_vars

\* C12: an add request from which no title can be derived is answered with
\* the guidance message and leaves the events and the id counter as they
\* were; every stored event has a non-empty title.
C12_NoUntitledEvent ==
    /\ [][ LET user_input == cal_reply'.input
           IN  (/\ cal_reply' # cal_reply
                /\ _detect_schedule_intent(user_input) = "add"
                /\ ExtractTitle(user_input) = NoTitle) =>
                   /\ cal_reply'.reply.kind = "need_title"
                   /\ events' = events
                   /\ event_id_counter' = event_id_counter ]_vars
    /\ [](\A i \in 1..Len(events) : events[i].title # <<>>)

\* "ming tian an pai" asked of a tool that holds an event: refused.
C12_Witness ==
    /\ cal_reply.input = <<"ming", "tian", "an", "pai">>
    /\ cal_reply.reply.kind = "need_title"
    /\ Len(events) = 1
    /\ event_id_counter = 2

\* C13: a request classified as update is answered with the one static
\* guidance text and leaves the events and the id counter as they were,
\* whatever the text and the entities.
C13_UpdateIsStatic ==
    [][ (/\ cal_reply' # cal_reply
         /\ _detect_schedule_intent(cal_reply'.input) = "update") =>
            /\ cal_reply'.reply = CalReply("update_guidance", NoId, NoTitle, <<>>)
            /\ events' = events
            /\ event_id_counter' = event_id_counter ]_vars

\* "geng gai hou tian shi3 jian 1" asked while event 1 is stored: event 1 is
\* still there.
C13_Witness ==
    /\ cal_reply.input = <<"geng", "gai", "hou", "tian", "shi3", "jian", "1">>
    /\ cal_reply.reply.kind = "update_guidance"
    /\ \E i \in 1..Len(events) : events[i].id = 1

\* C14: a read request carrying the id of an existing message returns that
\* message's formatted record, the same at every read (it is the record of
\* the message as constructed), and leaves its read flag true; a read flag
\* that is true stays true across every email request.
C14_ReadMarksRead ==
    [][ LET user_input == mail_reply'.input
            email_id   == _extract_email_id(user_input)
            i          == _find_email_by_id(mock_emails, email_id)
        IN  /\ (/\ mail_reply' # mail_reply
                /\ _detect_email_intent(user_input) = "read"
                /\ i # 0) =>
                   /\ mail_reply'.reply.kind = "single"
                   /\ mail_reply'.reply.message = _format_single_email(mock_emails[i])
                   /\ mail_reply'.reply.message =
                          _format_single_email(
                              SeedMailbox[_find_email_by_id(SeedMailbox, email_id)])
                   /\ mock_emails'[i].id = email_id
                   /\ mock_emails'[i].read
            /\ \A j \in 1..Len(mock_emails) :
                   mock_emails[j].read =>
                       /\ j <= Len(mock_emails')
                       /\ mock_emails'[j].id = mock_emails[j].id
                       /\ mock_emails'[j].read ]_vars

\* Message 1, unread as constructed, read by id a second time: it was already
\* marked read before this request and still is.
C14_Witness ==
    /\ mail_reply.input = <<"cha", "kan", "you", "jian", "1">>
    /\ mail_reply.reply.kind = "single"
    /\ mail_reply.reply.message.id = 1
    /\ mail_reply.before[1].read
    /\ mock_emails[1].read

\* The fields of a message other than its read flag.
Unflagged(email) ==
    [id |-> email.id, from |-> email.from, to |-> email.to,
     subject |-> email.subject, body |-> email.body, date |-> email.date,
     priority |-> email.priority]

\* C15: every email request leaves the mailbox with the same messages, each
\* with the same id, from, to, subject, body, date and priority; a read flag
\* changes only from false to true and only in the message that a successful
\* read by id returned; draft_emails is empty before and after every request.
C15_OnlyReadChanges ==
    [][ /\ Len(mock_emails') = Len(mock_emails)
        /\ \A j \in 1..Len(mock_emails) :
               /\ Unflagged(mock_emails'[j]) = Unflagged(mock_emails[j])
               /\ mock_emails'[j].read # mock_emails[j].read =>
                      /\ mock_emails'[j].read
                      /\ mail_reply'.reply.kind = "single"
                      /\ mail_reply'.reply.message.id = mock_emails[j].id
        /\ draft_emails = <<>>
        /\ draft_emails' = <<>> ]_vars

\* A compose or reply request that produced a draft, made after message 1
\* had been read by id: the mailbox differs from the constructed one only in
\* that flag, and no draft is stored.
C15_Witness ==
    /\ mail_reply.reply.kind \in {"compose_draft", "reply_draft"}
    /\ mail_reply.reply.draft # NoDraft
    /\ mock_emails # SeedMailbox
    /\ mock_emails[1].read
    /\ draft_emails = <<>>

\* C16: a request classified as reply is answered by the id it carries:
\* without a number with the please-specify-an-id message, with a number that
\* is the id of no message with the id-not-found message naming it, with the
\* id of a message with a draft addressed to that message's sender, subject
\* "Re: " and its subject, quoting it; no read flag changes.
C16_ReplyById ==
    [][ LET user_input == mail_reply'.input
            email_id   == _extract_email_id(user_input)
            i          == _find_email_by_id(mock_emails, email_id)
            reply      == mail_reply'.reply
        IN  (/\ mail_reply' # mail_reply
             /\ _detect_email_intent(user_input) = "reply") =>
                /\ \A j \in 1..Len(mock_emails) :
                       mock_emails'[j].read = mock_emails[j].read
                /\ IF email_id = NoId THEN reply.kind = "reply_need_id"
                   ELSE IF i = 0
                   THEN reply.kind = "not_found" /\ reply.id = email_id
                   ELSE /\ reply.kind = "reply_draft"
                        /\ reply.draft.to = mock_emails[i].from
                        /\ reply.draft.subject = RePrefix \o mock_emails[i].subject
                        /\ reply.draft.quoted_from = mock_emails[i].from
                        /\ reply.draft.quoted_subject = mock_emails[i].subject ]_vars

\* The reply command as the help text and the message view print it,
\* for message n.
DocumentedReply(n) == <<"hui2", "fu", "you", "jian">> \o <<n>>

\* C17: the documented reply command for an existing message n is answered
\* with the reply draft for message n and leaves every read flag as it was.
C17_DocumentedReplyReplies ==
    [][ \A n \in {"1", "2", "3"} :
            LET i == _find_email_by_id(mock_emails, IntOf(<<n>>)) IN
            (/\ mail_reply' # mail_reply
             /\ mail_reply'.input = DocumentedReply(n)
             /\ i # 0) =>
                /\ mail_reply'.reply.kind = "reply_draft"
                /\ mail_reply'.reply.id = IntOf(<<n>>)
                /\ mail_reply'.reply.draft.to = mock_emails[i].from
                /\ mock_emails'[i].read = mock_emails[i].read ]_vars

\* The view command as the calendar help prints it.
DocumentedView == <<"jin", "tian", "you3", "shen2", "me", "an", "pai", "fwqmark">>

\* C18: the documented view command is answered with a view (a listing, or
\* the message that there are no events) and leaves the events and the id
\* counter as they were.
C18_DocumentedViewViews ==
    [][ (/\ cal_reply' # cal_reply
         /\ cal_reply'.input = DocumentedView) =>
            /\ cal_reply'.reply.kind \in {"no_events", "none_in_range", "listing"}
            /\ events' = events
            /\ event_id_counter' = event_id_counter ]_vars

RECURSIVE SumOver(_, _)
SumOver(f, S) ==
    IF S = {} THEN 0
    ELSE LET x == CHOOSE x \in S : TRUE IN f[x] + SumOver(f, S \ {x})

\* C20: get_memory_statistics never fails with a division by zero.  Of an
\* empty store it returns total 0, no category counts and average 0.0; of
\* any other store the number of entries, for each category the number of
\* entries of that category (the counts sum to the number of entries), the
\* mean of the importances, and the sizes of the preference and the fact
\* records.
C20_StatisticsTotal ==
    mem_reply.op = "stats" =>
        LET s == mem_reply.stats IN
        /\ ~s.raised
        /\ IF memories = <<>>
           THEN /\ s.total_memories = 0
                /\ DOMAIN s.categories = {}
                /\ s.average_importance = ZeroQuotient
           ELSE /\ s.total_memories = Len(memories)
                /\ \A c \in DOMAIN s.categories :
                       s.categories[c] =
                           Cardinality({i \in 1..Len(memories) : memories[i].category = c})
                /\ \A i \in 1..Len(memories) : memories[i].category \in DOMAIN s.categories
                /\ SumOver(s.categories, DOMAIN s.categories) = Len(memories)
                /\ s.average_importance.den > 0
                /\ s.average_importance.num * Len(memories) =
                       TotalImportance(memories) * s.average_importance.den
                /\ s.has_counts
                /\ s.user_preferences_count =
                       Cardinality({kind \in DOMAIN user_preferences :
                                       user_preferences[kind] # <<>>})
                /\ s.important_facts_count = Cardinality(DOMAIN important_facts)

\* Statistics asked of a store that held entries and was cleared: the case
\* in which the mean would divide by zero.
C20_Witness ==
    /\ mem_reply.op = "stats"
    /\ memories = <<>>
    /\ max_memories > 0
    /\ mem_ops > 0
    /\ mem_reply.stats.total_memories = 0

\* How many times an entry occurs in a sequence of entries.
Occurrences(mems, m) == Cardinality({i \in 1..Len(mems) : mems[i] = m})

ReadingOps == {"relevant", "recent", "search", "stats", "export"}

\* The entries of a store, each with the keywords and category extracted
\* from its own texts.
WellFormedEntry(m) ==
    /\ m.keywords = _extract_keywords(m.user_input \o <<" ">> \o m.assistant_response)
    /\ m.category = _categorize_memory(m.user_input)

\* C21: a memory entry is never modified after it is appended.  A reading
\* call (get_relevant_memories, get_recent_memories, search_memories,
\* get_memory_statistics, export_memories) leaves the list as it is.  After
\* add_memory every stored entry is an entry stored before, field for field,
\* or the one entry just appended; no entry is duplicated; and an entry
\* stored before is gone only when the list with the new entry is longer
\* than max_memories, and then exactly as many as exceed it are gone.
C21_EntriesNeverModified ==
    [][ /\ mem_reply'.op \in ReadingOps => memories' = memories
        /\ mem_reply'.op = "add" =>
              \E x \in RecallExchanges :
                  \E new \in {[timestamp |-> clock', user_input |-> x.user_input,
                                assistant_response |-> x.assistant_response,
                                importance |-> x.importance,
                                keywords |-> _extract_keywords(
                                    x.user_input \o <<" ">> \o x.assistant_response),
                                category |-> _categorize_memory(x.user_input)]} :
                  LET appended == Append(memories, new)
                      entries == {appended[i] : i \in 1..Len(appended)}
                  IN  /\ \A i \in 1..Len(memories') : memories'[i] \in entries
                      /\ \A m \in entries :
                             Occurrences(memories', m) <= Occurrences(appended, m)
                      /\ Len(memories') = Min(Len(appended), max_memories)
      ]_vars

\* add_memory has evicted an entry and kept another, and a search then
\* returned the kept one.
C21_Witness ==
    /\ mem_reply.op = "search"
    /\ mem_reply.results # <<>>
    /\ mem_ops > max_memories
    /\ max_memories > 0

\* re.findall of the pattern of one preference kind.
MatchesOfKind(kind, text) ==
    CASE kind = "likes"      -> FindAllAfter(text, <<"wo", "xi", "huan">>)
      [] kind = "dislikes"   -> FindAllAfter(text, <<"wo", "bu", "xi", "huan">>)
      [] kind = "attributes" -> FindAllAttributes(text)
      [] kind = "location"   -> FindAllAfter(text, <<"wo", "zhu4", "zai">>)
      [] kind = "job"        -> FindAllAfter(text, <<"wo", "de", "gong", "zuo", "shi">>)
      [] kind = "name"       -> FindAllAfter(text, <<"wo", "jiao">>)

\* C22: across add_memory calls the preference record only grows: for each
\* preference kind the values after a call are the values before it followed
\* by the matches of the call's input, in order; nothing held before is
\* removed, reordered or merged, and a value extracted again is held again.
C22_PreferencesOnlyGrow ==
    [][ mem_reply'.op = "add" =>
            \E x \in StatementExchanges :
                \A kind \in DOMAIN NoPreferences :
                    /\ Len(user_preferences'[kind]) >= Len(user_preferences[kind])
                    /\ SubSeq(user_preferences'[kind], 1, Len(user_preferences[kind]))
                           = user_preferences[kind]
                    /\ SubSeq(user_preferences'[kind], Len(user_preferences[kind]) + 1,
                              Len(user_preferences'[kind]))
                           = MatchesOfKind(kind, x.user_input)
      ]_vars

\* Two calls have extracted the same attribute, and it is held twice.
C22_Witness ==
    /\ mem_reply.op = "add"
    /\ Len(user_preferences.attributes) >= 2
    /\ user_preferences.attributes[1] = user_preferences.attributes[2]
    /\ user_preferences.attributes[1].parts = << <<"ming", "zi">>, <<"xiao", "ming">> >>

\* C23: in the chat loop, an input handled while the assistant is initialised
\* has its relevant memories retrieved from the store as it was before the
\* exchange was stored, so that the exchange is not among them, and exactly
\* one entry, holding the input and the text of the response, is appended
\* after the response was produced, whether the response is generated text,
\* the request for input or an error string; an input received while the
\* assistant is not initialised is not handled and leaves the store as it is.
C23_RetrieveThenStoreOnce ==
    [][ session_state'.inputs = session_state.inputs + 1 =>
          \E turn \in {session_state'.turn} :
            /\ turn.handled <=> (session_state.assistant /\ turn.input # <<>>)
            /\ turn.handled =>
                  /\ ~turn.failed
                  /\ turn.response \in {"generated", "generation_error", "ask_for_input"}
                  /\ turn.relevant_memories
                         = get_relevant_memories(turn.input, DefaultLimit, memories)
                  /\ \A i \in 1..Len(turn.relevant_memories) :
                         \E j \in 1..Len(memories) :
                             turn.relevant_memories[i] = FormatMemory(memories[j])
                  /\ mem_ops' = mem_ops + 1
                  /\ Len(memories') + Len(mem_reply'.evicted) = Len(memories) + 1
                  /\ \E new \in {[timestamp |-> clock', user_input |-> turn.input,
                                  assistant_response |-> turn.text,
                                  importance |-> DefaultImportance,
                                  keywords |-> _extract_keywords(
                                      turn.input \o <<" ">> \o turn.text),
                                  category |-> _categorize_memory(turn.input)]} :
                         Occurrences(memories', new) + Occurrences(mem_reply'.evicted, new)
                             = Occurrences(memories, new) + 1
            /\ ~turn.handled =>
                  UNCHANGED << memories, user_preferences, important_facts, mem_ops >>
      ]_vars

\* The first handled input was answered with the error string of a failed
\* generation: nothing was retrieved for it, the exchange is stored with that
\* string, and a retrieval made now would return it.
C23_Witness ==
    /\ session_state.turn.handled
    /\ session_state.turn.response = "generation_error"
    /\ session_state.turn.relevant_memories = <<>>
    /\ Len(memories) = 1
    /\ memories[1].user_input = session_state.turn.input
    /\ memories[1].assistant_response = ResponseText([kind |-> "generation_error"])
    /\ get_relevant_memories(session_state.turn.input, DefaultLimit, memories) # <<>>
    /\ session_state.inputs = 2

\* The score of an entry for a query, as a fraction: 0.7 times the share of
\* the keywords of query and entry that both hold, plus 0.3 times the
\* importance (kept in tenths).
RelevanceScore(query_keywords, m) ==
    LET both   == Cardinality(query_keywords \cap SetOf(m.keywords))
        either == Cardinality(query_keywords \cup SetOf(m.keywords))
    IN  [num |-> 70 * both + 3 * m.importance * either, den |-> 100 * either]

ScoreAtLeast(a, b) == a.num * b.den >= b.num * a.den

Overlapping(query_keywords, m) == query_keywords \cap SetOf(m.keywords) # {}

\* C24: get_relevant_memories returns the lines of min(limit, number of
\* overlapping entries) distinct stored entries that overlap with the query,
\* in non-increasing order of score, and no overlapping entry left out has a
\* higher score than a returned one.
C24_TopScoresInOrder ==
    mem_reply.op = "relevant" =>
        LET query_keywords == SetOf(_extract_keywords(mem_reply.query))
            n == Len(memories)
            k == Len(mem_reply.results)
            Score(j) == RelevanceScore(query_keywords, memories[j])
            candidates == {j \in 1..n : Overlapping(query_keywords, memories[j])}
        IN  /\ k = Min(mem_reply.limit, Cardinality(candidates))
            /\ \E idx \in [1..k -> candidates] :
                  /\ \A a, b \in 1..k : a # b => idx[a] # idx[b]
                  /\ \A i \in 1..k : mem_reply.results[i] = FormatMemory(memories[idx[i]])
                  /\ \A a, b \in 1..k : a < b => ScoreAtLeast(Score(idx[a]), Score(idx[b]))
                  /\ \A j \in candidates :
                        (\A i \in 1..k : idx[i] # j) =>
                            \A i \in 1..k : ScoreAtLeast(Score(idx[i]), Score(j))

\* A query both stored entries overlap with, the more important one stored
\* last: with limit 1 the more important one alone is returned, and its line
\* differs from the other's.
C24_Witness ==
    /\ mem_reply.op = "relevant"
    /\ mem_reply.limit = 1
    /\ Len(memories) = 2
    /\ Len(mem_reply.results) = 1
    /\ Overlapping(SetOf(_extract_keywords(mem_reply.query)), memories[1])
    /\ Overlapping(SetOf(_extract_keywords(mem_reply.query)), memories[2])
    /\ memories[1].importance < memories[2].importance
    /\ mem_reply.results[1] = FormatMemory(memories[2])
    /\ mem_reply.results[1] # FormatMemory(memories[1])

\* C25: for every input text, the date and the time an added event receives
\* with the classifier's entities equal those it receives without entities,
\* when the calendar tool re-derives them from the text: whichever of the two
\* the request used, the event it stored has the date and the time that an
\* add of the same text gives on either path.
C25_EntityAndTextPathsAgree ==
    cal_reply.reply.kind = "added" =>
        \E stored \in {events[Len(events)]} :
            \A entities \in {NoEntities, _extract_time_info(cal_reply.input)} :
                \E other \in {_add_event(cal_reply.input, entities, <<>>, 1, clock).events[1]} :
                    /\ other.date = stored.date
                    /\ other.time = stored.time

\* The range a view request refers to: today, tomorrow, this week, or, when
\* it names none of them, everything.
DocumentedRange(user_input) ==
    IF Contains(user_input, <<"jin", "tian">>) \/ Contains(user_input, <<"jin", "ri">>)
        THEN "today"
    ELSE IF Contains(user_input, <<"ming", "tian">>) \/ Contains(user_input, <<"ming", "ri">>)
        THEN "tomorrow"
    ELSE IF Contains(user_input, <<"ben", "zhou">>) \/ Contains(user_input, <<"zhe", "zhou">>)
        THEN "this_week"
    ELSE "all"

\* Whether a stored event lies in a range, today being the day of the clock
\* and the week running from its Monday to its Sunday.
InDocumentedRange(e, range, today) ==
    CASE range = "today" -> e.date = today
      [] range = "tomorrow" -> e.date = today + 1
      [] range = "this_week" ->
             /\ e.date # Unspecified
             /\ today - Weekday(today) <= e.date
             /\ e.date <= today - Weekday(today) + 6
      [] OTHER -> TRUE

\* C26: a view request, handed on with the entities the classifier extracts
\* from it, lists exactly the stored events of the range it refers to: those
\* dated today, those dated tomorrow, those dated within this week's Monday
\* to Sunday, or every event when it refers to none of the three.
C26_ViewListsDocumentedRange ==
    ( /\ _detect_schedule_intent(cal_reply.input) = "view"
      /\ cal_reply.entities = _extract_time_info(cal_reply.input) ) =>
        \E shown \in { SelectSeq(events, LAMBDA e :
                           InDocumentedRange(e, DocumentedRange(cal_reply.input),
                                             Today(clock))) } :
            cal_reply.reply.listed = [i \in 1..Len(shown) |-> shown[i].id]

\* C27: in every state reached through add_memory, clear_memory,
\* export_memories and import_memories, a store with max_memories = N holds
\* at most N entries.
C27_WithinCapacity == Len(memories) <= max_memories

\* C28: when import_memories returns False, memories, user_preferences and
\* important_facts are what they were before the call.
C28_FailedImportChangesNothing ==
    [][ (mem_reply'.op = "import" /\ ~mem_reply'.ok) =>
            UNCHANGED << memories, user_preferences, important_facts >> ]_vars

\* An import of a text that is no JSON returned False on a store that holds
\* an entry, a preference and a fact.
C28_Witness ==
    /\ mem_reply.op = "import"
    /\ mem_reply.doc.kind = "invalid"
    /\ ~mem_reply.ok
    /\ Len(memories) >= 1
    /\ user_preferences.attributes # <<>>
    /\ DOMAIN important_facts # {}

\* C29: in every state of the calendar the stored events carry pairwise
\* distinct ids, every stored id is at least 1 and below the id counter, the
\* counter is 1 plus the number of adds that stored an event, and the events
\* stand in the collection in increasing order of id.
C29_CalendarInvariant ==
    /\ \A i, j \in 1..Len(events) : i # j => events[i].id # events[j].id
    /\ \A i \in 1..Len(events) : 1 <= events[i].id /\ events[i].id < event_id_counter
    /\ event_id_counter = 1 + Len(assigned_ids)
    /\ \A i \in 1..(Len(events) - 1) : events[i].id < events[i + 1].id

\* Two adds and then the delete of event 1: event 2 alone is stored and the
\* counter stays at 3.
C29_Witness ==
    /\ cal_reply.reply.kind = "deleted"
    /\ cal_reply.reply.id = 1
    /\ Len(assigned_ids) = 2
    /\ Len(events) = 1
    /\ events[1].id = 2
    /\ event_id_counter = 3

====
